---------------------------- MODULE Spec2Model ----------------------------
(***************************************************************************)
(* pve2otelcol: the supervision core of package pve (latest snapshot,      *)
(* src/unnamed/part_005): the registry knownVMs, the reconciliation tick   *)
(* RefreshVMsMonitoring, the keep-alive supervisor RunKeptAliveProcess     *)
(* with its per-round goroutine runVMMonitoring, and Start/Stop.           *)
(*                                                                         *)
(* The package holds no lock, so a shared read or write is a step of its   *)
(* own wherever another goroutine can observe the difference:              *)
(* StopVMMonitoring is two steps (call the cancel handle; clear Running),  *)
(* the supervisor stores the handle in one step and receives the           *)
(* completion signal in another, and a cancelled subprocess dies in a step *)
(* of its own (exec.CommandContext kills asynchronously).                  *)
(*                                                                         *)
(* VM records are heap objects.  A record that neither the registry nor a  *)
(* goroutine refers to any more is garbage and its slot is reused.         *)
(***************************************************************************)
EXTENDS Integers, Sequences, FiniteSets, TLC

(***************************************************************************)
(* Bounds of the model.                                                    *)
(***************************************************************************)
\* workload ids the inventory can list
MaxId == 2
\* VM records alive at once
MaxVMs == 2
\* largest configured cmd-retry-times
MaxRetry == 2
\* calls of Start() that find no ticker and run the first refresh
MaxStarts == 2

Ids == 1..MaxId
Objs == 1..MaxVMs
\* one more round than any budget needs, so that an overrun is a state
Rounds == 0..MaxRetry
Threads == {"main", "ticker"}

\* the nil pointer / nil func / nil error
Nil == <<>>
\* an error value: what failed, and in which round of the retry loop
Err(kind, r) == <<kind, r>>

VARIABLES
    cfg,        \* config.Config: CmdRetryTimes, RefreshInterval
    knownVMs,   \* Pve.knownVMs: id -> VM record (0: no entry)
    vm,         \* the VM records (heap objects)
    sup,        \* per VM record: the goroutine running RunKeptAliveProcess
    attempt,    \* per VM record and round: context, runVMMonitoring, channel
    thr,        \* the two goroutines that reconcile: main and the ticker's
    ticker,     \* Pve.ticker: "nil", "running" or "stopped"
    stopped,    \* a call of Stop() has returned
    firsts,     \* first refreshes run by Start() so far
    lastProbe   \* what CurrentVMs returned to the latest completed refresh

\* One call of CurrentLXCs, taken line by line
VARIABLES
    outStr,     \* the output of `pct list`: its lines, each a string of characters
    row,        \* lines of outStr the loop has gone through
    lxcs        \* the map `vms` it builds: a set of [Id, Name], one per key

\* The output of the monitor subprocesses
VARIABLES
    stream,     \* per VM record and round: the lines the subprocess has written
                \* (produced), those not yet scanned (pipe), the local
                \* seenError, and the decode warnings logged so far (warns)
    sink        \* per VM record: what has been handed to vm.Logger.Log, in order

\* what the supervision leaves alone
VARIABLES
    inv,        \* the node's inventory: what each id is at the moment
    parse,      \* one call of config.ParseArgs: the command line, the Config
                \* it fills, and how the call ended
    emit        \* one call of OLogger.Log: the body and the record emitted

aux == <<outStr, row, lxcs, stream, sink, inv, parse, emit>>

vars == <<cfg, knownVMs, vm, sup, attempt, thr, ticker, stopped, firsts, lastProbe, aux>>

(***************************************************************************)
(* Records                                                                 *)
(***************************************************************************)
\* a free slot of the heap
NoVM == [Id |-> 0, MonitorCmd |-> "", Running |-> FALSE, Logger |-> Nil,
         StopProcess |-> Nil, LastError |-> Nil]

\* the descriptor CurrentLXCs builds for a running container
NewVM(id) == [Id |-> id, MonitorCmd |-> "pct", Running |-> FALSE, Logger |-> Nil,
              StopProcess |-> Nil, LastError |-> Nil]

NoSup == [pc |-> "none", round |-> 0, ret |-> ""]

\* one round of the retry loop: its context, its runVMMonitoring goroutine
\* (pc, and how its subprocess ended) and its channel `finished`
NoAttempt == [ctx |-> "none", pc |-> "none", how |-> "", finished |-> <<>>]

\* a subprocess that has written nothing, and its scan loop before line one
NoStream == [produced |-> <<>>, pipe |-> <<>>, seenError |-> FALSE, warns |-> 0]

\* no call of ParseArgs
NoParse == [pc |-> "none", argv |-> <<>>, c |-> Nil]

\* no call of Log
NoEmit == [pc |-> "none", body |-> Nil, record |-> Nil]

\* a reconciling goroutine outside RefreshVMsMonitoring and Stop
IdleThr(pc) == [pc |-> pc, call |-> "", vms |-> {}, failed |-> FALSE,
                remove |-> {}, cur |-> 0, same |-> FALSE, keys0 |-> {},
                starts |-> 0, news |-> 0, stops |-> [i \in Ids |-> 0]]

Keys == {i \in Ids : knownVMs[i] # 0}
Free == {o \in Objs : vm[o].Id = 0}
\* runVMMonitoring goroutines launched for a record so far
Started(o) == {r \in Rounds : attempt[o][r].pc # "none"}
\* monitor subprocesses of a record that are running
Live(o) == {r \in Rounds : attempt[o][r].pc = "scan"}
SupActive(o) == sup[o].pc \in {"begin", "sleep", "wait"}
\* a panic in any goroutine ends the whole program
Alive == thr["main"].pc # "panic"
\* the return from RefreshVMsMonitoring touches nothing shared: it is taken
\* before any other goroutine's next step
Ready == Alive /\ \A t \in Threads : thr[t].pc # "ret"

Init ==
    /\ cfg \in [CmdRetryTimes : 0..MaxRetry, RefreshInterval : 0..1]
    /\ knownVMs = [i \in Ids |-> 0]
    /\ vm = [o \in Objs |-> NoVM]
    /\ sup = [o \in Objs |-> NoSup]
    /\ attempt = [o \in Objs |-> [r \in Rounds |-> NoAttempt]]
    /\ thr = [t \in Threads |-> IdleThr(IF t = "main" THEN "idle" ELSE "none")]
    /\ ticker = "nil"
    /\ stopped = FALSE
    /\ firsts = 0
    /\ lastProbe = Nil
    /\ outStr = <<>>
    /\ inv = [i \in Ids |-> "absent"]
    /\ parse = NoParse
    /\ emit = NoEmit
    /\ row = 0
    /\ lxcs = {}
    /\ stream = [o \in Objs |-> [r \in Rounds |-> NoStream]]
    /\ sink = [o \in Objs |-> <<>>]

(***************************************************************************)
(* The heap                                                                *)
(***************************************************************************)
\* records that nothing refers to: not in the registry, their supervisor
\* returned (or never started) and every runVMMonitoring goroutine ended
Garbage(k, s, a) ==
    {o \in Objs : /\ \A i \in Ids : k[i] # o
                  /\ s[o].pc \in {"none", "done"}
                  /\ \A r \in Rounds : a[o][r].pc \in {"none", "done"}}

\* a round whose goroutine has ended and whose channel the supervisor has
\* read: its context and channel are garbage; how it ended is kept
Over(s, a, o, r) ==
    /\ a[o][r].pc = "done"
    /\ s[o].pc = "done" \/ s[o].round > r \/ a[o][r].finished = <<>>

\* the next registry, records, supervisors and rounds, garbage collected
Commit(k, v, s, a) ==
    LET dead == Garbage(k, s, a)
    IN /\ knownVMs' = k
       /\ vm' = [o \in Objs |-> IF o \in dead THEN NoVM ELSE v[o]]
       /\ sup' = [o \in Objs |-> IF o \in dead THEN NoSup ELSE s[o]]
       /\ attempt' = [o \in Objs |-> [r \in Rounds |->
                        IF o \in dead THEN NoAttempt
                        ELSE IF Over(s, a, o, r)
                               THEN [NoAttempt EXCEPT !.pc = "done", !.how = a[o][r].how]
                               ELSE a[o][r]]]

(***************************************************************************)
(* RunKeptAliveProcess                                                     *)
(***************************************************************************)
\* a faulty variant: the loop runs once more (`round <= ...`)
LoopContinuesOnceMore(round) == round <= cfg.CmdRetryTimes

\* the loop condition `round < p.cfg.CmdRetryTimes`
LoopContinues(round) == round < cfg.CmdRetryTimes

\* a faulty variant: the cancel function is not kept
StoreCancelDropped(o, r) == vm

\* `vm.StopProcess = cancel`
StoreCancel(o, r) == [vm EXCEPT ![o].StopProcess = <<r>>]

\* `finished := make(chan error, 1)`, the context, `go p.runVMMonitoring(...)`
\* up to cmd.Start(): the subprocess runs and its output is scanned, or
\* Start fails, the error is sent and, there being no return, the function
\* goes on
Launch(o, r, spawned) ==
    [attempt EXCEPT ![o][r] =
        IF spawned
          THEN [ctx |-> "live", pc |-> "scan", how |-> "", finished |-> <<>>]
          ELSE [ctx |-> "live", pc |-> "nostart", how |-> "nostart",
                finished |-> <<Err("nostart", r)>>]]

\* a faulty variant: the command is never found missing
MissingCmdIgnored(o) == FALSE

\* `if vm.MonitorCmd == ""`
MissingCmd(o) == vm[o].MonitorCmd = ""

\* the goroutine's first steps: the command check, then round 0
SupBegin(o, spawned) ==
    /\ Ready
    /\ sup[o].pc = "begin"
    /\ IF MissingCmd(o)
         THEN /\ spawned
              /\ Commit(knownVMs, vm,
                        [sup EXCEPT ![o] = [pc |-> "done", round |-> 0,
                                            ret |-> "missing monitoring command"]],
                        attempt)
         ELSE IF LoopContinues(0)
                THEN Commit(knownVMs, StoreCancel(o, 0),
                            [sup EXCEPT ![o].pc = "wait"], Launch(o, 0, spawned))
                ELSE /\ spawned
                     /\ Commit(knownVMs, vm, [sup EXCEPT ![o].pc = "done"], attempt)
    /\ UNCHANGED <<aux, cfg, thr, ticker, stopped, firsts, lastProbe>>

\* a faulty variant: one subprocess at a time, a retry waiting for the
\* subprocesses of the other workloads to end
SupWakeInTurn(o, spawned) ==
    /\ Ready
    /\ sup[o].pc = "sleep"
    /\ \A q \in Objs \ {o} : Live(q) = {}
    /\ Commit(knownVMs, StoreCancel(o, sup[o].round),
              [sup EXCEPT ![o].pc = "wait"], Launch(o, sup[o].round, spawned))
    /\ UNCHANGED <<aux, cfg, thr, ticker, stopped, firsts, lastProbe>>

\* round > 0: the retry delay is over; next attempt
SupWake(o, spawned) ==
    /\ Ready
    /\ sup[o].pc = "sleep"
    /\ Commit(knownVMs, StoreCancel(o, sup[o].round),
              [sup EXCEPT ![o].pc = "wait"], Launch(o, sup[o].round, spawned))
    /\ UNCHANGED <<aux, cfg, thr, ticker, stopped, firsts, lastProbe>>

\* a faulty variant: only the first error is kept
AfterFinishedKeepsFirst(o, err) ==
    IF ~vm[o].Running
      THEN [lastError |-> vm[o].LastError, pc |-> "done", round |-> sup[o].round]
      ELSE [lastError |-> IF err # Nil /\ vm[o].LastError = Nil THEN err ELSE vm[o].LastError,
            pc |-> IF LoopContinues(sup[o].round + 1) THEN "sleep" ELSE "done",
            round |-> sup[o].round + 1]

\* a faulty variant: the loop also ends when the subprocess ended without error
AfterFinishedOrNil(o, err) ==
    IF ~vm[o].Running \/ err = Nil
      THEN [lastError |-> vm[o].LastError, pc |-> "done", round |-> sup[o].round]
      ELSE [lastError |-> err,
            pc |-> IF LoopContinues(sup[o].round + 1) THEN "sleep" ELSE "done",
            round |-> sup[o].round + 1]

\* what the loop does with the value it received: break when the workload
\* is no longer running, else keep the error and go round again
AfterFinished(o, err) ==
    IF ~vm[o].Running
      THEN [lastError |-> vm[o].LastError, pc |-> "done", round |-> sup[o].round]
      ELSE [lastError |-> IF err # Nil THEN err ELSE vm[o].LastError,
            pc |-> IF LoopContinues(sup[o].round + 1) THEN "sleep" ELSE "done",
            round |-> sup[o].round + 1]

\* the round's goroutine once the loop has taken its value: after a failed
\* Start, Scan() was false at once and cmd.Wait() reported the command as
\* not started, and the second `finished <- err` was waiting for room in
\* the channel; it completes now, into a channel nobody reads any more
Received(o, r) ==
    [attempt EXCEPT ![o][r].finished = Tail(@),
                    ![o][r].pc = IF @ = "nostart" THEN "done" ELSE @]

\* `err := <-finished`, the Running check, LastError, round++
SupReceive(o) ==
    /\ Ready
    /\ sup[o].pc = "wait"
    /\ attempt[o][sup[o].round].finished # <<>>
    /\ LET r == sup[o].round
           a == AfterFinished(o, Head(attempt[o][r].finished))
       IN Commit(knownVMs,
                 [vm EXCEPT ![o].LastError = a.lastError],
                 [sup EXCEPT ![o].pc = a.pc, ![o].round = a.round],
                 Received(o, r))
    /\ UNCHANGED <<aux, cfg, thr, ticker, stopped, firsts, lastProbe>>

(***************************************************************************)
(* runVMMonitoring: one goroutine per round, and its subprocess            *)
(***************************************************************************)
\* `finished <- err` on the round's channel (capacity 1)
Send(o, r, err, pc, how) ==
    [attempt EXCEPT ![o][r].finished = Append(@, err),
                    ![o][r].pc = pc, ![o][r].how = how]

\* the error runVMMonitoring ends with: `if !vm.Running { err = nil }`
ExitError(o, r, how) ==
    IF ~vm[o].Running \/ how = "ok" THEN Nil ELSE Err(how, r)

\* lines a monitor subprocess writes in one run
MaxLines == 2

\* Sample lines of journalctl's output, well within bufio.Scanner's limit of
\* one token: two JSON objects and one that json.Unmarshal rejects
JsonPlain == "{\"MESSAGE\":\"hi\"}"

JsonSpaced == "{ \"MESSAGE\" : \"yo\" }"

NotJson == "not-json"

LineSamples == {JsonPlain, JsonSpaced, NotJson}

\* `json.Unmarshal([]byte(line), &jData)` on the samples: the decoded map
\* (its entries, as key=value), or no value and an error
Unmarshal(line) ==
    CASE line = JsonPlain -> <<"MESSAGE=hi">>
      [] line = JsonSpaced -> <<"MESSAGE=yo">>
      [] OTHER -> Nil

\* a faulty variant: every malformed line is announced
ShouldWarnAlways(seen) == TRUE

\* `if !seenError`
ShouldWarn(seen) == ~seen

\* a faulty variant: a line that does not decode is not forwarded
RouteDecodedOnly(s, line) ==
    IF Unmarshal(line) = Nil THEN s
    ELSE Append(s, [type |-> "map", body |-> Unmarshal(line)[1]])

\* `vm.Logger.Log(line)` or `vm.Logger.Log(jData)`: one Emit, appended to s
Route(s, line) ==
    IF Unmarshal(line) = Nil THEN Append(s, [type |-> "string", body |-> line])
    ELSE Append(s, [type |-> "map", body |-> Unmarshal(line)[1]])

\* the subprocess writes a line to its standard output
ProcWrites(o, r, line) ==
    /\ Ready
    /\ attempt[o][r].pc = "scan"
    /\ Len(stream[o][r].produced) < MaxLines
    /\ stream' = [stream EXCEPT ![o][r].produced = Append(@, line),
                                ![o][r].pipe = Append(@, line)]
    /\ UNCHANGED <<cfg, knownVMs, vm, sup, attempt, thr, ticker, stopped, firsts,
                   lastProbe, outStr, row, lxcs, sink, inv, parse, emit>>

\* one pass of `for scanner.Scan() { ... }`: the next line is decoded, the
\* first failure of this run is announced, and the line is forwarded
ScanLine(o, r) ==
    /\ Ready
    /\ attempt[o][r].pc = "scan"
    /\ stream[o][r].pipe # <<>>
    /\ LET line == Head(stream[o][r].pipe)
           bad == Unmarshal(line) = Nil
           warn == bad /\ ShouldWarn(stream[o][r].seenError)
       IN  /\ stream' = [stream EXCEPT ![o][r].pipe = Tail(@),
                                       ![o][r].seenError = @ \/ bad,
                                       ![o][r].warns = IF warn THEN @ + 1 ELSE @]
           /\ sink' = [sink EXCEPT ![o] = Route(@, line)]
    /\ UNCHANGED <<cfg, knownVMs, vm, sup, attempt, thr, ticker, stopped, firsts,
                   lastProbe, outStr, row, lxcs, inv, parse, emit>>

\* a faulty variant: the loop ends with the subprocess, lines unread
DrainedOrNot(o, r) == TRUE

\* scanner.Scan() returns false: the subprocess has closed its output and
\* every line of it has been scanned
Drained(o, r) == stream[o][r].pipe = <<>>

\* the subprocess ends by itself, with an error ("exit") or without ("ok");
\* the scan loop ends, then `err = cmd.Wait()`, the Running check and
\* `finished <- err`
ProcExits(o, r, how) ==
    /\ Ready
    /\ attempt[o][r].pc = "scan"
    /\ Drained(o, r)
    /\ Commit(knownVMs, vm, sup, Send(o, r, ExitError(o, r, how), "done", how))
    /\ UNCHANGED <<aux, cfg, thr, ticker, stopped, firsts, lastProbe>>

\* exec.CommandContext kills the subprocess of a cancelled context; the
\* scan loop ends as above
ProcKilled(o, r) ==
    /\ Ready
    /\ attempt[o][r].pc = "scan"
    /\ attempt[o][r].ctx = "cancelled"
    /\ Drained(o, r)
    /\ Commit(knownVMs, vm, sup, Send(o, r, ExitError(o, r, "killed"), "done", "killed"))
    /\ UNCHANGED <<aux, cfg, thr, ticker, stopped, firsts, lastProbe>>

(***************************************************************************)
(* The probe                                                               *)
(***************************************************************************)
\* a faulty variant: a failed `pct list` still yields workloads
ProbeResultsOnFailure ==
    {[vms |-> s, failed |-> f] : s \in SUBSET Ids, f \in BOOLEAN}

\* what CurrentVMs can return: the ids of the running containers, or
\* nothing at all when `pct list` fails
ProbeResults ==
    {[vms |-> s, failed |-> FALSE] : s \in SUBSET Ids} \cup {[vms |-> {}, failed |-> TRUE]}

(***************************************************************************)
(* RefreshVMsMonitoring, by the goroutine t                                *)
(*                                                                         *)
(* The first loop is one step: a pass writes only the registry, which no   *)
(* supervisor reads, and the record it has just built, which it hands to   *)
(* the new supervisor with its last statement.                             *)
(***************************************************************************)
\* a faulty variant: UpdateVM takes every descriptor for a new workload
IsKnownNever(id) == FALSE

\* UpdateVM: `if _, ok := p.knownVMs[vm.Id]; !ok`
IsKnown(id) == knownVMs[id] # 0

\* a faulty variant: the sink is not looked at
ShouldStartSinkless(desc) == ~desc.Running

\* StartVMMonitoring: `if vm.Logger != nil && !vm.Running`, on the descriptor
ShouldStart(desc) == desc.Logger # Nil /\ ~desc.Running

\* the descriptor after UpdateVM: a new one gets the sink ologgers.New
\* returned for record o (nil when it failed), a known one is left as the
\* probe built it
Updated(id, o, sinkOk) ==
    IF IsKnown(id) THEN NewVM(id)
    ELSE [NewVM(id) EXCEPT !.Logger = IF sinkOk THEN <<o>> ELSE Nil]

\* the descriptors UpdateVM stores
NewIds(vms) == {i \in vms : ~IsKnown(i)}

Rank(x, S) == Cardinality({y \in S : y < x})
\* the slot of the heap a new descriptor is allocated in
SlotOf(id, new) == CHOOSE o \in Free : Rank(o, Free) = Rank(id, new)

\* a faulty variant: the second loop removes every id of the registry
VanishedOrNot(k, vms) == {i \in Ids : k[i] # 0}

\* the second loop's list: the ids of the registry k that are not in vms
Vanished(k, vms) == {i \in Ids : k[i] # 0 /\ i \notin vms}

\* `vms := p.CurrentVMs()` and the loop over StartVMMonitoring(vm), the sink
\* of each id of ok being created and of the other new ids failing; then
\* the `remove` list.  A known id's descriptor has no Logger and is dropped.
\* The fields same..stops observe this refresh.
Refresh(t, p, ok) ==
    LET new == NewIds(p.vms)
        desc(i) == Updated(i, IF i \in new THEN SlotOf(i, new) ELSE 0, i \in ok)
        go == {i \in new : ShouldStart(desc(i))}
        k == [i \in Ids |-> IF i \in new THEN SlotOf(i, new) ELSE knownVMs[i]]
        at(o) == CHOOSE i \in new : SlotOf(i, new) = o
        slots == {SlotOf(i, new) : i \in new}
        gone == Vanished(k, p.vms)
    IN /\ Cardinality(new) <= Cardinality(Free)
       /\ ok \subseteq new
       /\ Commit(k,
                 [o \in Objs |-> IF o \in slots
                                   THEN [desc(at(o)) EXCEPT !.Running = at(o) \in go]
                                   ELSE vm[o]],
                 [o \in Objs |-> IF o \in slots /\ at(o) \in go
                                   THEN [NoSup EXCEPT !.pc = "begin"]
                                   ELSE sup[o]],
                 attempt)
       /\ thr' = [thr EXCEPT ![t] =
                    [pc |-> IF gone = {} THEN "ret" ELSE "remove",
                     call |-> "refresh", vms |-> p.vms, failed |-> p.failed,
                     remove |-> gone, cur |-> 0,
                     same |-> lastProbe = <<p.vms>>, keys0 |-> Keys,
                     starts |-> Cardinality(go), news |-> Cardinality(new),
                     stops |-> [i \in Ids |-> 0]]]
       /\ lastProbe' = IF gone = {} THEN <<p.vms>> ELSE lastProbe

\* StopVMMonitoring, first half: `if vm.StopProcess != nil { vm.StopProcess() }`
\* (cancelling the context of a subprocess that is gone changes nothing)
Cancel(o) ==
    IF o # 0 /\ vm[o].StopProcess # Nil /\ attempt[o][vm[o].StopProcess[1]].pc = "scan"
      THEN [attempt EXCEPT ![o][vm[o].StopProcess[1]].ctx = "cancelled"]
      ELSE attempt

\* RemoveVM(id) up to the cancellation
RemoveVMStop(t, id) ==
    /\ Ready
    /\ thr[t].pc = "remove"
    /\ id \in thr[t].remove
    /\ attempt' = Cancel(knownVMs[id])
    /\ thr' = [thr EXCEPT ![t].pc = "stopping", ![t].cur = id, ![t].stops[id] = @ + 1]
    /\ UNCHANGED <<aux, cfg, knownVMs, vm, sup, ticker, stopped, firsts, lastProbe>>

\* a faulty variant: RemoveVM forgets the delete
DeletedNothing(id) == knownVMs

\* the registry after `delete(p.knownVMs, id)`
Deleted(id) == [knownVMs EXCEPT ![id] = 0]

\* StopVMMonitoring, second half: `vm.Running = false`; then the delete.
\* After the last id of the list the refresh, or Stop(), returns.
RemoveVMDelete(t) ==
    /\ Ready
    /\ thr[t].pc = "stopping"
    /\ LET id == thr[t].cur
           o == knownVMs[id]
           rest == thr[t].remove \ {id}
           refresh == thr[t].call = "refresh"
       IN /\ Commit(Deleted(id),
                    IF o # 0 THEN [vm EXCEPT ![o].Running = FALSE] ELSE vm,
                    sup, attempt)
          /\ thr' = [thr EXCEPT ![t] =
                        IF rest # {} THEN [@ EXCEPT !.pc = "remove", !.cur = 0, !.remove = rest]
                        ELSE IF refresh THEN [@ EXCEPT !.pc = "ret", !.cur = 0, !.remove = {}]
                        ELSE IdleThr("idle")]
          /\ lastProbe' = IF rest # {} THEN lastProbe
                          ELSE IF refresh THEN <<thr[t].vms>> ELSE Nil
          /\ stopped' = (stopped \/ (rest = {} /\ ~refresh))
    /\ UNCHANGED <<aux, cfg, ticker, firsts>>

(***************************************************************************)
(* Start, periodicRefresh, Stop                                            *)
(***************************************************************************)
\* Start() finds no ticker: periodicRefresh runs the first refresh right now
Start(p, ok) ==
    /\ Ready
    /\ thr["main"].pc = "idle"
    /\ ticker = "nil"
    /\ firsts < MaxStarts
    /\ firsts' = firsts + 1
    /\ Refresh("main", p, ok)
    /\ UNCHANGED <<aux, cfg, ticker, stopped>>

\* Start(): `if p.ticker != nil { return }`
StartAgain ==
    /\ Ready
    /\ thr["main"].pc = "idle"
    /\ ticker # "nil"
    /\ UNCHANGED vars

\* periodicRefresh after the first refresh: no ticker for an interval of 0,
\* else the ticker and the goroutine that selects on it
PeriodicRefresh ==
    /\ Alive
    /\ thr["main"].pc = "ret"
    /\ IF cfg.RefreshInterval = 0
         THEN /\ thr' = [thr EXCEPT !["main"] = IdleThr("idle")]
              /\ UNCHANGED ticker
         ELSE /\ thr' = [thr EXCEPT !["main"] = IdleThr("idle"),
                                    !["ticker"] = IdleThr("select")]
              /\ ticker' = "running"
    /\ UNCHANGED <<aux, cfg, knownVMs, vm, sup, attempt, stopped, firsts, lastProbe>>

\* `case <-p.ticker.C: p.RefreshVMsMonitoring()`: a running ticker fires
\* sooner or later.  (A tick left in the channel by a ticker just stopped
\* starts the same refresh as one that fired before Stop() was called.)
TickerTick(p, ok) ==
    /\ Ready
    /\ thr["ticker"].pc = "select"
    /\ ticker = "running"
    /\ Refresh("ticker", p, ok)
    /\ UNCHANGED <<aux, cfg, ticker, stopped, firsts>>

\* the periodic refresh returns to the select
TickerLoops ==
    /\ Alive
    /\ thr["ticker"].pc = "ret"
    /\ thr' = [thr EXCEPT !["ticker"] = IdleThr("select")]
    /\ UNCHANGED <<aux, cfg, knownVMs, vm, sup, attempt, ticker, stopped, firsts, lastProbe>>

\* Stop(): `p.ticker.Stop()` (a nil ticker panics), then the send on the
\* unbuffered quitTicker, which waits for the goroutine to select it
Stop ==
    /\ Ready
    /\ thr["main"].pc = "idle"
    /\ IF ticker = "nil"
         THEN /\ thr' = [thr EXCEPT !["main"].pc = "panic"]
              /\ UNCHANGED ticker
         ELSE /\ thr' = [thr EXCEPT !["main"].pc = "quit"]
              /\ ticker' = "stopped"
    /\ UNCHANGED <<aux, cfg, knownVMs, vm, sup, attempt, stopped, firsts, lastProbe>>

\* a faulty variant: the send on quitTicker does not wait for the goroutine
\* (a buffered channel), and Stop() goes on while a refresh may be running
TickerQuitsUnawaited ==
    /\ Ready
    /\ thr["main"].pc = "quit"
    /\ thr["ticker"].pc # "ended"
    /\ thr' = [thr EXCEPT !["main"] = IF Keys = {} THEN IdleThr("idle")
                                      ELSE [IdleThr("remove") EXCEPT !.call = "stop",
                                                                     !.remove = Keys]]
    /\ stopped' = (stopped \/ Keys = {})
    /\ lastProbe' = IF Keys = {} THEN Nil ELSE lastProbe
    /\ UNCHANGED <<aux, cfg, knownVMs, vm, sup, attempt, ticker, firsts>>

\* `case <-*p.quitTicker: return`; Stop() goes on to `for id := range p.knownVMs`
TickerQuits ==
    /\ Ready
    /\ thr["ticker"].pc = "select"
    /\ thr["main"].pc = "quit"
    /\ thr' = [thr EXCEPT !["ticker"] = IdleThr("ended"),
                          !["main"] = IF Keys = {} THEN IdleThr("idle")
                                      ELSE [IdleThr("remove") EXCEPT !.call = "stop",
                                                                     !.remove = Keys]]
    /\ stopped' = (stopped \/ Keys = {})
    /\ lastProbe' = IF Keys = {} THEN Nil ELSE lastProbe
    /\ UNCHANGED <<aux, cfg, knownVMs, vm, sup, attempt, ticker, firsts>>

Next ==
    \/ \E p \in ProbeResults, ok \in SUBSET Ids : Start(p, ok)
    \/ StartAgain
    \/ PeriodicRefresh
    \/ \E p \in ProbeResults, ok \in SUBSET Ids : TickerTick(p, ok)
    \/ TickerLoops
    \/ Stop
    \/ TickerQuits
    \/ \E t \in Threads, id \in Ids : RemoveVMStop(t, id)
    \/ \E t \in Threads : RemoveVMDelete(t)
    \/ \E o \in Objs, spawned \in BOOLEAN : SupBegin(o, spawned)
    \/ \E o \in Objs, spawned \in BOOLEAN : SupWake(o, spawned)
    \/ \E o \in Objs : SupReceive(o)
    \/ \E o \in Objs, r \in Rounds, how \in {"exit", "ok"} : ProcExits(o, r, how)
    \/ \E o \in Objs, r \in Rounds : ProcKilled(o, r)

Spec == Init /\ [][Next]_vars

\* Every goroutine that can take a step takes it in the end, and so does
\* the kill of a subprocess whose context is cancelled; a subprocess is not
\* bound to end by itself, nor the ticker to fire, nor the embedding program
\* to call anything.  The fairness is strong because a refresh that returns
\* is given precedence over the other goroutines (Ready), which disables
\* their steps for that moment without making them wait in the program.
Fairness ==
    /\ \A o \in Objs : SF_vars(\E spawned \in BOOLEAN : SupBegin(o, spawned))
    /\ \A o \in Objs : SF_vars(\E spawned \in BOOLEAN : SupWake(o, spawned))
    /\ \A o \in Objs : SF_vars(SupReceive(o))
    /\ \A o \in Objs : SF_vars(\E r \in Rounds : ProcKilled(o, r))
    /\ \A t \in Threads : SF_vars(\E id \in Ids : RemoveVMStop(t, id))
    /\ \A t \in Threads : SF_vars(RemoveVMDelete(t))
    /\ WF_vars(PeriodicRefresh)
    /\ WF_vars(TickerLoops)
    /\ SF_vars(TickerQuits)

\* The same program with the probe confined to the ids 1..MaxLiveId, for the
\* properties of what happens in the end.
MaxLiveId == 1

LiveIds == 1..MaxLiveId

LiveProbeResults == {p \in ProbeResults : p.vms \subseteq LiveIds}

LiveNext ==
    \/ \E p \in LiveProbeResults, ok \in SUBSET LiveIds : Start(p, ok)
    \/ StartAgain
    \/ PeriodicRefresh
    \/ \E p \in LiveProbeResults, ok \in SUBSET LiveIds : TickerTick(p, ok)
    \/ TickerLoops
    \/ Stop
    \/ TickerQuits
    \/ \E t \in Threads, id \in Ids : RemoveVMStop(t, id)
    \/ \E t \in Threads : RemoveVMDelete(t)
    \/ \E o \in Objs, spawned \in BOOLEAN : SupBegin(o, spawned)
    \/ \E o \in Objs, spawned \in BOOLEAN : SupWake(o, spawned)
    \/ \E o \in Objs : SupReceive(o)
    \/ \E o \in Objs, r \in Rounds, how \in {"exit", "ok"} : ProcExits(o, r, how)
    \/ \E o \in Objs, r \in Rounds : ProcKilled(o, r)

FairSpec == Init /\ [][LiveNext]_vars /\ Fairness

\* The reconciling goroutines alone: a refresh, Stop() or periodicRefresh that
\* can take its next step takes it.  Weak fairness is enough here: only a
\* return of the other reconciler holds such a step up, for one step.
TickFairness ==
    /\ \A t \in Threads : WF_vars(\E id \in Ids : RemoveVMStop(t, id))
    /\ \A t \in Threads : WF_vars(RemoveVMDelete(t))
    /\ WF_vars(PeriodicRefresh)
    /\ WF_vars(TickerLoops)

TickSpec == Init /\ [][LiveNext]_vars /\ TickFairness

\* One workload and its monitor command's output: Start() without a ticker
\* (a second call may find the workload gone and stop it in mid-stream)
StreamInit == Init /\ cfg.RefreshInterval = 0

StreamNext ==
    \/ \E p \in LiveProbeResults, ok \in SUBSET LiveIds : Start(p, ok)
    \/ PeriodicRefresh
    \/ \E t \in Threads, id \in Ids : RemoveVMStop(t, id)
    \/ \E t \in Threads : RemoveVMDelete(t)
    \/ \E o \in Objs, spawned \in BOOLEAN : SupBegin(o, spawned)
    \/ \E o \in Objs, spawned \in BOOLEAN : SupWake(o, spawned)
    \/ \E o \in Objs : SupReceive(o)
    \/ \E o \in Objs, r \in Rounds, line \in LineSamples : ProcWrites(o, r, line)
    \/ \E o \in Objs, r \in Rounds : ScanLine(o, r)
    \/ \E o \in Objs, r \in Rounds, how \in {"exit", "ok"} : ProcExits(o, r, how)
    \/ \E o \in Objs, r \in Rounds : ProcKilled(o, r)

StreamSpec == StreamInit /\ [][StreamNext]_vars

(***************************************************************************)
(* The exported methods called one by one by the embedding program:        *)
(* StartVMMonitoring with a descriptor of its own making, StopVMMonitoring *)
(* with any id, as often as it likes                                       *)
(***************************************************************************)
\* the monitor commands of the descriptors handed in: none, or `pct`
CmdSamples == {"", "pct"}

\* StartVMMonitoring(vm) with a new descriptor: UpdateVM registers an unknown
\* id with the sink it could create, and a descriptor that has a sink gets
\* its supervisor; the descriptor of a known id has no sink and is dropped
StartVMMonitoring(id, cmd, sinkOk) ==
    /\ Ready
    /\ thr["main"].pc = "idle"
    /\ IF IsKnown(id)
         THEN UNCHANGED <<knownVMs, vm, sup, attempt>>
         ELSE /\ Free # {}
              /\ LET o == SlotOf(id, {id})
                     desc == [Updated(id, o, sinkOk) EXCEPT !.MonitorCmd = cmd]
                     go == ShouldStart(desc)
                 IN Commit([knownVMs EXCEPT ![id] = o],
                           [vm EXCEPT ![o] = [desc EXCEPT !.Running = go]],
                           [sup EXCEPT ![o] = IF go THEN [NoSup EXCEPT !.pc = "begin"] ELSE @],
                           attempt)
    /\ UNCHANGED <<aux, cfg, thr, ticker, stopped, firsts, lastProbe>>

\* StopVMMonitoring(id), first half: the lookup and `vm.StopProcess()`
StopVMMonitoringCancel(id) ==
    /\ Ready
    /\ thr["main"].pc = "idle"
    /\ attempt' = Cancel(knownVMs[id])
    /\ thr' = [thr EXCEPT !["main"].pc = "stopvm", !["main"].cur = id]
    /\ UNCHANGED <<aux, cfg, knownVMs, vm, sup, ticker, stopped, firsts, lastProbe>>

\* StopVMMonitoring(id), second half: `vm.Running = false`, and the return
StopVMMonitoringFlag ==
    /\ Ready
    /\ thr["main"].pc = "stopvm"
    /\ LET o == knownVMs[thr["main"].cur]
       IN vm' = IF o # 0 THEN [vm EXCEPT ![o].Running = FALSE] ELSE vm
    /\ thr' = [thr EXCEPT !["main"] = IdleThr("idle")]
    /\ UNCHANGED <<aux, cfg, knownVMs, sup, attempt, ticker, stopped, firsts, lastProbe>>

ApiInit == Init /\ cfg.RefreshInterval = 0

ApiNext ==
    \/ \E id \in Ids, cmd \in CmdSamples, sinkOk \in BOOLEAN : StartVMMonitoring(id, cmd, sinkOk)
    \/ \E id \in Ids : StopVMMonitoringCancel(id)
    \/ StopVMMonitoringFlag
    \/ \E o \in Objs, spawned \in BOOLEAN : SupBegin(o, spawned)
    \/ \E o \in Objs, spawned \in BOOLEAN : SupWake(o, spawned)
    \/ \E o \in Objs : SupReceive(o)
    \/ \E o \in Objs, r \in Rounds, how \in {"exit", "ok"} : ProcExits(o, r, how)
    \/ \E o \in Objs, r \in Rounds : ProcKilled(o, r)

ApiSpec == ApiInit /\ [][ApiNext]_vars

(***************************************************************************)
(* CurrentLXCs: the parsing of the output of `pct list`                    *)
(***************************************************************************)
\* lines of output in a sample
MaxRows == 2

DigitChars == <<"0", "1", "2", "3", "4", "5", "6", "7", "8", "9">>

IsDigit(c) == \E i \in 1..Len(DigitChars) : DigitChars[i] = c

DigitVal(c) == (CHOOSE i \in 1..Len(DigitChars) : DigitChars[i] = c) - 1

\* unicode.IsSpace, for the characters of the samples
IsSpace(c) == c \in {" ", "\t", "\r"}

\* `strings.Split(outStr, "\n")`
RECURSIVE SplitFrom(_, _, _)
SplitFrom(str, line, lines) ==
    IF str = <<>> THEN Append(lines, line)
    ELSE IF Head(str) = "\n" THEN SplitFrom(Tail(str), <<>>, Append(lines, line))
    ELSE SplitFrom(Tail(str), Append(line, Head(str)), lines)

Split(str) == SplitFrom(str, <<>>, <<>>)

\* `strings.Fields(line)`
RECURSIVE FieldsFrom(_, _, _)
FieldsFrom(line, word, items) ==
    LET closed == IF word = <<>> THEN items ELSE Append(items, word)
    IN  IF line = <<>> THEN closed
        ELSE IF IsSpace(Head(line)) THEN FieldsFrom(Tail(line), <<>>, closed)
        ELSE FieldsFrom(Tail(line), Append(word, Head(line)), items)

Fields(line) == FieldsFrom(line, <<>>, <<>>)

\* strconv.Atoi: a sign, then decimal digits, accumulated left to right
\* (the samples stay far below the range of int)
RECURSIVE AtoiDigits(_, _)
AtoiDigits(s, n) ==
    IF s = <<>> THEN <<n>>
    ELSE IF ~IsDigit(Head(s)) THEN Nil
    ELSE AtoiDigits(Tail(s), n * 10 + DigitVal(Head(s)))

Atoi(s) ==
    IF s = <<>> THEN Nil
    ELSE LET signed == Head(s) \in {"+", "-"}
             digits == IF signed THEN Tail(s) ELSE s
             n == AtoiDigits(digits, 0)
         IN  IF digits = <<>> \/ n = Nil THEN Nil
             ELSE IF Head(s) = "-" THEN <<0 - n[1]>> ELSE n

Running == <<"r", "u", "n", "n", "i", "n", "g">>

\* `if len(items) < 3 { continue }`
TooShort(items) == Len(items) < 3

\* a faulty variant: the state column is not looked at
IsRunningAny(state) == TRUE

\* `if state != "running" { continue }`
IsRunning(state) == state = Running

\* one pass of the loop body: the descriptor the line yields, if any
Parsed(line) ==
    LET items == Fields(line)
    IN  IF TooShort(items) THEN Nil
        ELSE IF ~IsRunning(items[2]) THEN Nil
        ELSE IF Atoi(items[1]) = Nil THEN Nil
        ELSE <<[Id |-> Atoi(items[1])[1], Name |-> items[3]]>>

\* `vms[id] = &VM{...}`
Put(m, d) == {e \in m : e.Id # d.Id} \cup {d}

\* the loop `for _, line := range strings.Split(outStr, "\n")`, one line on
ScanRow ==
    /\ row < Len(Split(outStr))
    /\ row' = row + 1
    /\ lxcs' = LET d == Parsed(Split(outStr)[row + 1])
               IN  IF d = Nil THEN lxcs ELSE Put(lxcs, d[1])
    /\ UNCHANGED <<cfg, knownVMs, vm, sup, attempt, thr, ticker, stopped, firsts,
                   lastProbe, outStr, stream, sink, inv, parse, emit>>

\* Sample outputs: rows of fields, laid out the way pct does or loosely
NotRunning == <<"s", "t", "o", "p", "p", "e", "d">>

IdWords == {<<"1">>, <<"2">>, <<"1", "2">>, <<"0", "1">>, <<"+", "1">>, <<"-", "2">>,
            <<"1", "x">>, <<"x">>, <<"-">>}

SampleRows ==
    {<<id, st, <<"a">>>> : id \in IdWords, st \in {Running, NotRunning}}
      \cup {<<>>, <<<<"1">>, Running>>, <<<<"1">>, Running, <<"b">>>>,
            <<<<"2">>, Running, <<"a">>, <<"b">>>>, <<Running, <<"1">>, <<"a">>>>,
            <<<<"V">>, <<"S">>, <<"L">>, <<"N">>>>}

RECURSIVE Join(_, _)
Join(items, sep) ==
    IF items = <<>> THEN <<>>
    ELSE IF Len(items) = 1 THEN items[1]
    ELSE items[1] \o sep \o Join(Tail(items), sep)

SampleLines ==
    {Join(f, <<" ">>) : f \in SampleRows}
      \cup {<<" ", " ">> \o Join(f, <<" ", "\t", " ">>) \o <<" ", "\r">> :
              f \in {g \in SampleRows : Len(g) = 3 /\ g[1] \in {<<"1">>, <<"x">>}}}

SampleOutputs ==
    LET seqs == UNION {[1..n -> SampleLines] : n \in 0..MaxRows}
    IN  {Join(q, <<"\n">>) : q \in seqs} \cup {Join(q, <<"\n">>) \o <<"\n">> : q \in seqs}

ListInit ==
    /\ cfg = [CmdRetryTimes |-> 0, RefreshInterval |-> 0]
    /\ knownVMs = [i \in Ids |-> 0]
    /\ vm = [o \in Objs |-> NoVM]
    /\ sup = [o \in Objs |-> NoSup]
    /\ attempt = [o \in Objs |-> [r \in Rounds |-> NoAttempt]]
    /\ thr = [t \in Threads |-> IdleThr(IF t = "main" THEN "idle" ELSE "none")]
    /\ ticker = "nil"
    /\ stopped = FALSE
    /\ firsts = 0
    /\ lastProbe = Nil
    /\ outStr \in SampleOutputs
    /\ inv = [i \in Ids |-> "absent"]
    /\ parse = NoParse
    /\ emit = NoEmit
    /\ row = 0
    /\ lxcs = {}
    /\ stream = [o \in Objs |-> [r \in Rounds |-> NoStream]]
    /\ sink = [o \in Objs |-> <<>>]

ListNext == ScanRow

ListSpec == ListInit /\ [][ListNext]_vars

(***************************************************************************)
(* The node's inventory and the probe that reads it                        *)
(***************************************************************************)
\* what an id can be on the node: nothing, a container (running or not), or
\* a Qemu/KVM machine that runs; ids are unique across both kinds
InvStates == {"absent", "lxc-running", "lxc-stopped", "qm-running"}

\* the digits of a small id
IdWord(i) == <<DigitChars[i + 1]>>

\* the table a list command prints: the header, then the given rows by id
RECURSIVE Table(_, _, _)
Table(rowOf, i, text) ==
    IF i > MaxId THEN text
    ELSE Table(rowOf, i + 1,
               IF rowOf[i] = Nil THEN text ELSE text \o Join(rowOf[i], <<" ">>) \o <<"\n">>)

\* what `pct list` prints: VMID, Status, Lock (empty) and Name
PctList ==
    LET rowOf == [i \in Ids |->
                    IF inv[i] = "lxc-running" THEN <<IdWord(i), Running, <<"a">>>>
                    ELSE IF inv[i] = "lxc-stopped" THEN <<IdWord(i), NotRunning, <<"a">>>>
                    ELSE Nil]
    IN  Table(rowOf, 1, <<"V", " ", "S", " ", "L", " ", "N", "\n">>)

\* what `qm list` prints: VMID, NAME, STATUS and the rest
QmList ==
    LET rowOf == [i \in Ids |->
                    IF inv[i] = "qm-running"
                      THEN <<IdWord(i), <<"a">>, Running, <<"5">>, <<"0">>, <<"7">>>>
                      ELSE Nil]
    IN  Table(rowOf, 1, <<"V", " ", "N", " ", "S", " ", "M", " ", "B", " ", "P", "\n">>)

\* the whole loop of CurrentLXCs over the lines of an output
RECURSIVE ScanRows(_, _)
ScanRows(lines, m) ==
    IF lines = <<>> THEN m
    ELSE ScanRows(Tail(lines), LET d == Parsed(Head(lines))
                               IN  IF d = Nil THEN m ELSE Put(m, d[1]))

\* a faulty variant: the output is parsed whether the command failed or not
CurrentLXCsWhatever(fails) ==
    {e.Id : e \in ScanRows(Split(PctList), {})}

\* CurrentLXCs: the ids of the map built from `pct list`, none when it failed
CurrentLXCs(fails) ==
    IF fails THEN {} ELSE {e.Id : e \in ScanRows(Split(PctList), {})}

\* CurrentKVMs, which nothing calls: the rows of `qm list` whose third field
\* is "running"
CurrentKVMs ==
    {i \in Ids : \E line \in {Split(QmList)[k] : k \in 1..Len(Split(QmList))} :
        LET items == Fields(line)
        IN  Len(items) >= 3 /\ items[3] = Running /\ Atoi(items[1]) = <<i>>}

\* a faulty variant: the machines are copied in as well
CurrentVMsAndKVMs(fails) ==
    (IF ~cfg.SkipLXCs THEN CurrentLXCs(fails) ELSE {}) \cup CurrentKVMs

\* CurrentVMs: the containers unless SkipLXCs; the copy of the machines is
\* commented out
CurrentVMs(fails) == IF ~cfg.SkipLXCs THEN CurrentLXCs(fails) ELSE {}

\* what the probe hands to a refresh
InvProbe(fails) ==
    [vms |-> CurrentVMs(fails), failed |-> fails /\ ~cfg.SkipLXCs]

\* the node changes between two refreshes: a workload appears, starts, stops
\* or goes
InventoryChanges(i, s) ==
    /\ \A t \in Threads : thr[t].call = ""
    /\ s # inv[i]
    /\ inv' = [inv EXCEPT ![i] = s]
    /\ UNCHANGED <<cfg, knownVMs, vm, sup, attempt, thr, ticker, stopped, firsts,
                   lastProbe, outStr, row, lxcs, stream, sink, parse, emit>>

InvInit ==
    /\ cfg \in [CmdRetryTimes : {1}, RefreshInterval : {1}, SkipLXCs : BOOLEAN]
    /\ knownVMs = [i \in Ids |-> 0]
    /\ vm = [o \in Objs |-> NoVM]
    /\ sup = [o \in Objs |-> NoSup]
    /\ attempt = [o \in Objs |-> [r \in Rounds |-> NoAttempt]]
    /\ thr = [t \in Threads |-> IdleThr(IF t = "main" THEN "idle" ELSE "none")]
    /\ ticker = "nil"
    /\ stopped = FALSE
    /\ firsts = 0
    /\ lastProbe = Nil
    /\ outStr = <<>>
    /\ row = 0
    /\ lxcs = {}
    /\ stream = [o \in Objs |-> [r \in Rounds |-> NoStream]]
    /\ sink = [o \in Objs |-> <<>>]
    /\ inv = [i \in Ids |-> "absent"]
    /\ parse = NoParse
    /\ emit = NoEmit

\* (one attempt per supervisor: nothing sleeps a retry delay)
InvNext ==
    \/ \E i \in Ids, s \in InvStates : InventoryChanges(i, s)
    \/ \E fails \in BOOLEAN, ok \in SUBSET Ids : Start(InvProbe(fails), ok)
    \/ PeriodicRefresh
    \/ \E fails \in BOOLEAN, ok \in SUBSET Ids : TickerTick(InvProbe(fails), ok)
    \/ TickerLoops
    \/ \E t \in Threads, id \in Ids : RemoveVMStop(t, id)
    \/ \E t \in Threads : RemoveVMDelete(t)
    \/ \E o \in Objs, spawned \in BOOLEAN : SupBegin(o, spawned)
    \/ \E o \in Objs : SupReceive(o)
    \/ \E o \in Objs, r \in Rounds, how \in {"exit", "ok"} : ProcExits(o, r, how)
    \/ \E o \in Objs, r \in Rounds : ProcKilled(o, r)

InvSpec == InvInit /\ [][InvNext]_vars

(***************************************************************************)
(* The id filters of the configuration.  ParseArgs fills MonitorInclude    *)
(* and MonitorExclude and refuses an id that is in both; the part of the   *)
(* package that applies them is not among the sources, and is taken here   *)
(* to drop the filtered ids from what the probe returns.                   *)
(***************************************************************************)
\* the pairs of lists ParseArgs accepts: no id in both
FilterPairs ==
    {f \in [MonitorInclude : SUBSET Ids, MonitorExclude : SUBSET Ids] :
        f.MonitorInclude \cap f.MonitorExclude = {}}

\* the id passes the filters
Allowed(i) ==
    /\ i \notin cfg.MonitorExclude
    /\ cfg.MonitorInclude = {} \/ i \in cfg.MonitorInclude

\* a faulty variant: the filters are not applied
MonitoredAll(ids) == ids

\* the ids of a probe result that are to be monitored
Monitored(ids) == {i \in ids : Allowed(i)}

FilterProbe(fails) == [vms |-> Monitored(CurrentVMs(fails)), failed |-> fails]

FilterInit ==
    /\ \E f \in FilterPairs :
          cfg = [CmdRetryTimes |-> 1, RefreshInterval |-> 1, SkipLXCs |-> FALSE,
                 MonitorInclude |-> f.MonitorInclude, MonitorExclude |-> f.MonitorExclude]
    /\ knownVMs = [i \in Ids |-> 0]
    /\ vm = [o \in Objs |-> NoVM]
    /\ sup = [o \in Objs |-> NoSup]
    /\ attempt = [o \in Objs |-> [r \in Rounds |-> NoAttempt]]
    /\ thr = [t \in Threads |-> IdleThr(IF t = "main" THEN "idle" ELSE "none")]
    /\ ticker = "nil"
    /\ stopped = FALSE
    /\ firsts = 0
    /\ lastProbe = Nil
    /\ outStr = <<>>
    /\ row = 0
    /\ lxcs = {}
    /\ stream = [o \in Objs |-> [r \in Rounds |-> NoStream]]
    /\ sink = [o \in Objs |-> <<>>]
    /\ inv = [i \in Ids |-> "absent"]
    /\ parse = NoParse
    /\ emit = NoEmit

\* (one attempt per supervisor: nothing sleeps a retry delay)
FilterNext ==
    \/ \E i \in Ids, s \in {"absent", "lxc-running"} : InventoryChanges(i, s)
    \/ \E fails \in BOOLEAN, ok \in SUBSET Ids : Start(FilterProbe(fails), ok)
    \/ PeriodicRefresh
    \/ \E fails \in BOOLEAN, ok \in SUBSET Ids : TickerTick(FilterProbe(fails), ok)
    \/ TickerLoops
    \/ \E t \in Threads, id \in Ids : RemoveVMStop(t, id)
    \/ \E t \in Threads : RemoveVMDelete(t)
    \/ \E o \in Objs, spawned \in BOOLEAN : SupBegin(o, spawned)
    \/ \E o \in Objs : SupReceive(o)
    \/ \E o \in Objs, r \in Rounds, how \in {"exit", "ok"} : ProcExits(o, r, how)
    \/ \E o \in Objs, r \in Rounds : ProcKilled(o, r)

FilterSpec == FilterInit /\ [][FilterNext]_vars

(***************************************************************************)
(* config.ParseArgs: the flags of the exporter, its gRPC URL and the        *)
(* compression, and the checks on them                                     *)
(***************************************************************************)
\* flags on a command line
MaxArgs == 3

\* the flags in the order ParseArgs defines them
FlagOrder == <<"otlp-exporter", "otlp-grpc-url", "otlp-compression">>

\* the field of Config whose address the flag's StringVar call is given
BoundTo(name) ==
    IF name = "otlp-exporter" THEN "OtlpgRPCURL"
    ELSE IF name = "otlp-grpc-url" THEN "OtlpgRPCURL"
    ELSE "OtlpCompression"

\* the flag's default: DEFAULT_OTLP_EXPORTER, DEFAULT_OTLP_GRPC_URL,
\* DEFAULT_OTLP_COMPRESSION
DefaultOf(name) ==
    IF name = "otlp-exporter" THEN "grpc"
    ELSE IF name = "otlp-grpc-url" THEN "http://localhost:4317"
    ELSE "gzip"

\* `c := Config{}`
ZeroConfig == [OtlpExporter |-> "", OtlpgRPCURL |-> "", OtlpCompression |-> ""]

\* the StringVar calls from the k-th on: each stores its default through
\* the pointer it is given
RECURSIVE Defined(_, _)
Defined(c, k) ==
    IF k > Len(FlagOrder) THEN c
    ELSE Defined([c EXCEPT ![BoundTo(FlagOrder[k])] = DefaultOf(FlagOrder[k])], k + 1)

\* flag.Parse(): each flag of the command line, from left to right, stores
\* its value through the pointer of its definition
RECURSIVE FlagsParsed(_, _)
FlagsParsed(c, argv) ==
    IF argv = <<>> THEN c
    ELSE FlagsParsed([c EXCEPT ![BoundTo(Head(argv)[1])] = Head(argv)[2]], Tail(argv))

\* the checks on the exporter and on the compression: os.Exit(1), or on to
\* `return &c` (the other checks pass on the defaults)
Checked(c) ==
    IF c.OtlpExporter # "grpc" /\ c.OtlpExporter # "http" THEN "exit1"
    ELSE IF c.OtlpCompression # "none" /\ c.OtlpCompression # "gzip" THEN "exit1"
    ELSE "returned"

\* flags one can write: -name=value
ArgSamples ==
    {<<"otlp-exporter", "grpc">>, <<"otlp-exporter", "http">>, <<"otlp-exporter", "udp">>,
     <<"otlp-grpc-url", "http://collector:4317">>,
     <<"otlp-compression", "none">>, <<"otlp-compression", "zip">>}

CommandLines == UNION {[1..n -> ArgSamples] : n \in 0..MaxArgs}

\* ParseArgs(), from `c := Config{}` to os.Exit(1) or `return &c`
ParseArgs ==
    /\ parse.pc = "called"
    /\ parse' = LET c == FlagsParsed(Defined(ZeroConfig, 1), parse.argv)
                IN  [parse EXCEPT !.c = c, !.pc = Checked(c)]
    /\ UNCHANGED <<cfg, knownVMs, vm, sup, attempt, thr, ticker, stopped, firsts,
                   lastProbe, outStr, row, lxcs, stream, sink, inv, emit>>

\* the program is started with a command line
ArgsInit ==
    /\ cfg = [CmdRetryTimes |-> 0, RefreshInterval |-> 0]
    /\ knownVMs = [i \in Ids |-> 0]
    /\ vm = [o \in Objs |-> NoVM]
    /\ sup = [o \in Objs |-> NoSup]
    /\ attempt = [o \in Objs |-> [r \in Rounds |-> NoAttempt]]
    /\ thr = [t \in Threads |-> IdleThr(IF t = "main" THEN "idle" ELSE "none")]
    /\ ticker = "nil"
    /\ stopped = FALSE
    /\ firsts = 0
    /\ lastProbe = Nil
    /\ outStr = <<>>
    /\ row = 0
    /\ lxcs = {}
    /\ stream = [o \in Objs |-> [r \in Rounds |-> NoStream]]
    /\ sink = [o \in Objs |-> <<>>]
    /\ inv = [i \in Ids |-> "absent"]
    /\ \E argv \in CommandLines : parse = [pc |-> "called", argv |-> argv, c |-> Nil]
    /\ emit = NoEmit

ArgsNext == ParseArgs

ArgsSpec == ArgsInit /\ [][ArgsNext]_vars

(***************************************************************************)
(* ologgers: str2time, and the timestamps OLogger.Log puts on a record     *)
(***************************************************************************)
\* characters of the longest sample of a timestamp field
MaxDigits == 10

\* strconv.ParseInt(s, 10, 64): a sign, then decimal digits (the samples stay
\* below 2^31, far from the range of int64)
ParseInt(s) == Atoi(s)

\* Go's integer division and remainder, which truncate toward zero
Quo(a, b) == IF a >= 0 THEN a \div b ELSE 0 - ((0 - a) \div b)

Rem(a, b) == a - b * Quo(a, b)

\* time.Unix(sec, nsec): the instant, its nanoseconds brought into [0, 1e9)
Unix(sec, nsec) == <<sec + (nsec \div 1000000000), nsec % 1000000000>>

\* time.Now(): whatever the clock shows
Now == <<"now">>

\* str2time: the instant and the error it returns, which is nil on both paths
str2time(s) ==
    LET i == ParseInt(s)
    IN  IF i = Nil THEN [tm |-> Now, err |-> Nil]
        ELSE [tm |-> Unix(Quo(i[1], 1000000), Rem(i[1], 1000000) * 1000), err |-> Nil]

\* `if err != nil`: the condition under which Log sets a timestamp
ShouldSet(err) == err # Nil

\* the timestamp Log sets from the field `key` of the body: the zero time
\* (none set) unless the field is there and the condition holds
Stamp(body, key) ==
    IF \E kv \in body : kv[1] = key /\ ShouldSet(str2time(kv[2]).err)
      THEN str2time((CHOOSE kv \in body : kv[1] = key)[2]).tm
      ELSE Nil

\* the record Log emits, as far as its timestamps go
Logged(body) ==
    [Timestamp |-> Stamp(body, "_SOURCE_REALTIME_TIMESTAMP"),
     ObservedTimestamp |-> Stamp(body, "__REALTIME_TIMESTAMP")]

\* values of a timestamp field: counts of microseconds, and other strings
StampSamples ==
    {s \in {<<"0">>,
             <<"1">>,
             <<"9", "9", "9", "9", "9", "9">>,
             <<"1", "0", "0", "0", "0", "0", "0">>,
             <<"1", "0", "0", "0", "0", "0", "1">>,
             <<"1", "2", "3", "4", "5", "6", "7">>,
             <<"2", "1", "4", "7", "4", "8", "3", "6", "4", "7">>,
             <<"-", "1">>,
             <<"1", "2", "x">>,
             <<>>} :
        Len(s) <= MaxDigits}

StampKeys == {"_SOURCE_REALTIME_TIMESTAMP", "__REALTIME_TIMESTAMP"}

\* the bodies: a map with or without each of the two fields
Bodies ==
    {b \in SUBSET (StampKeys \X StampSamples) :
        \A k \in StampKeys : Cardinality({kv \in b : kv[1] = k}) <= 1}

\* Log(i), from transformBody to LogRecord
Log ==
    /\ emit.pc = "called"
    /\ emit' = [emit EXCEPT !.record = Logged(emit.body), !.pc = "emitted"]
    /\ UNCHANGED <<cfg, knownVMs, vm, sup, attempt, thr, ticker, stopped, firsts,
                   lastProbe, outStr, row, lxcs, stream, sink, inv, parse>>

\* a decoded line is handed to Log
LogInit ==
    /\ cfg = [CmdRetryTimes |-> 0, RefreshInterval |-> 0]
    /\ knownVMs = [i \in Ids |-> 0]
    /\ vm = [o \in Objs |-> NoVM]
    /\ sup = [o \in Objs |-> NoSup]
    /\ attempt = [o \in Objs |-> [r \in Rounds |-> NoAttempt]]
    /\ thr = [t \in Threads |-> IdleThr(IF t = "main" THEN "idle" ELSE "none")]
    /\ ticker = "nil"
    /\ stopped = FALSE
    /\ firsts = 0
    /\ lastProbe = Nil
    /\ outStr = <<>>
    /\ row = 0
    /\ lxcs = {}
    /\ stream = [o \in Objs |-> [r \in Rounds |-> NoStream]]
    /\ sink = [o \in Objs |-> <<>>]
    /\ inv = [i \in Ids |-> "absent"]
    /\ parse = NoParse
    /\ \E b \in Bodies : emit = [pc |-> "called", body |-> b, record |-> Nil]

LogNext == Log

LogSpec == LogInit /\ [][LogNext]_vars

(***************************************************************************)
(* The ticks of a running loop, and an embedding program that calls the    *)
(* exported StopVMMonitoring for an id of its choice between them          *)
(***************************************************************************)
ReconcileInit == Init /\ cfg.CmdRetryTimes = 1 /\ cfg.RefreshInterval = 1

\* (one attempt per supervisor: nothing sleeps a retry delay)
ReconcileNext ==
    \/ \E p \in ProbeResults, ok \in SUBSET Ids : Start(p, ok)
    \/ PeriodicRefresh
    \/ \E p \in ProbeResults, ok \in SUBSET Ids : TickerTick(p, ok)
    \/ TickerLoops
    \/ \E t \in Threads, id \in Ids : RemoveVMStop(t, id)
    \/ \E t \in Threads : RemoveVMDelete(t)
    \/ \E id \in Ids : StopVMMonitoringCancel(id)
    \/ StopVMMonitoringFlag
    \/ \E o \in Objs, spawned \in BOOLEAN : SupBegin(o, spawned)
    \/ \E o \in Objs : SupReceive(o)
    \/ \E o \in Objs, r \in Rounds, how \in {"exit", "ok"} : ProcExits(o, r, how)
    \/ \E o \in Objs, r \in Rounds : ProcKilled(o, r)

ReconcileSpec == ReconcileInit /\ [][ReconcileNext]_vars

(***************************************************************************)
(* The claims                                                              *)
(***************************************************************************)
\* the record o was started and StopVMMonitoring has since cleared Running
Stopped(o) == vm[o].Id # 0 /\ sup[o].pc # "none" /\ ~vm[o].Running

\* every run of o's monitor command so far ended with an error of its own
\* (or is still running), and the workload has stayed marked running
AlwaysFailing(o) ==
    /\ vm[o].Running
    /\ \A r \in Started(o) : attempt[o][r].how \in {"", "exit", "nostart"}

C2_OneSupervisor ==
    \A i \in Ids : Cardinality({o \in Objs : vm[o].Id = i /\ SupActive(o)}) <= 1

\* C3: once StopVMMonitoring has been called for a workload whose supervisor
\* is in its retry loop (waiting for the running attempt to end, or asleep
\* between two attempts), that supervisor starts no further attempt.
C3_NoAttemptAfterStop ==
    [][\A o \in Objs :
          Stopped(o) /\ sup[o].pc \in {"wait", "sleep"} =>
              \A r \in Rounds : attempt[o][r].pc = "none" => attempt'[o][r].pc = "none"]_vars

\* C4: the subprocess exit that stop() causes (the kill of the cancelled
\* context) is never recorded in LastError.
C4_NoErrorFromStop ==
    \A o \in Objs : vm[o].LastError = Nil \/ vm[o].LastError[1] # "killed"

\* C5: stop() in any active supervisor state eventually leaves the workload
\* with no running monitor subprocess and its supervisor task ended (as
\* long as the program itself has not crashed).
C5_StopQuiesces ==
    \A o \in Objs :
        (Stopped(o) /\ SupActive(o)) ~> (~Alive \/ (~SupActive(o) /\ Live(o) = {}))

\* C6: from the moment Stop() returns, no monitor subprocess is running.
C6_StopDrains ==
    stopped => \A o \in Objs : Live(o) = {}

\* C7: a refresh that gets the probe result of the refresh before it starts
\* no supervisor, creates no sink, calls no stop() and leaves the registry's
\* keys as they were.
C7_TickIdempotent ==
    \A t \in Threads :
        thr[t].pc = "ret" /\ thr[t].same =>
            /\ thr[t].starts = 0
            /\ thr[t].news = 0
            /\ \A i \in Ids : thr[t].stops[i] = 0
            /\ Keys = thr[t].keys0

C7_Witness ==
    \E t \in Threads :
        /\ thr[t].pc = "ret"
        /\ thr[t].same
        /\ \E i \in thr[t].vms : knownVMs[i] # 0 /\ SupActive(knownVMs[i])

\* C8: an id that is in the registry when a refresh starts and is absent
\* from its probe result gets exactly one stop() from that refresh and has
\* no registry entry when the refresh ends.
C8_StopThenVanish ==
    \A t \in Threads :
        /\ \A i \in Ids : thr[t].stops[i] <= 1
        /\ thr[t].pc = "ret" =>
              \A i \in thr[t].keys0 \ thr[t].vms :
                  thr[t].stops[i] = 1 /\ knownVMs[i] = 0

\* a refresh has ended that stopped a supervisor in mid-stream: the record
\* is out of the registry, its context cancelled, its subprocess not yet dead
C8_Witness ==
    \E t \in Threads, i \in Ids, o \in Objs :
        /\ thr[t].pc = "ret"
        /\ i \in thr[t].keys0 \ thr[t].vms
        /\ vm[o].Id = i
        /\ Stopped(o)
        /\ \E r \in Live(o) : attempt[o][r].ctx = "cancelled"

\* C9, as claimed: for a registered workload the cancel handle is non-nil
\* exactly while a keep-alive task is active for it: nil until the task has
\* stored it, non-nil from then on until the task ends, nil afterwards.
C9_HandleIffActive ==
    \A i \in Keys :
        LET o == knownVMs[i]
        IN  /\ vm[o].StopProcess # Nil => SupActive(o)
            /\ SupActive(o) /\ Started(o) # {} => vm[o].StopProcess # Nil

\* C9, amended: the cancel handle is non-nil exactly when the keep-alive
\* task has launched at least one attempt, and it is then the handle of the
\* latest attempt; it is nil until the first attempt and stays set after
\* the task has returned.
C9_HandleIffLaunched ==
    \A o \in Objs :
        vm[o].Id # 0 =>
            /\ (vm[o].StopProcess # Nil) <=> (Started(o) # {})
            /\ vm[o].StopProcess # Nil =>
                  /\ vm[o].StopProcess[1] \in Started(o)
                  /\ \A r \in Started(o) : r <= vm[o].StopProcess[1]

C9_Witness ==
    \E i \in Keys :
        /\ sup[knownVMs[i]].pc = "done"
        /\ vm[knownVMs[i]].Running
        /\ vm[knownVMs[i]].StopProcess # Nil

\* C10: while an id stays in the registry its entry is the same record with
\* the same sink: created with the entry, or failed with it, and never
\* created or replaced afterwards.
C10_SinkOnce ==
    [][\A i \in Ids :
          knownVMs[i] # 0 /\ knownVMs'[i] # 0 =>
              /\ knownVMs'[i] = knownVMs[i]
              /\ vm'[knownVMs[i]].Logger = vm[knownVMs[i]].Logger]_vars

\* a later refresh has ended with the id still listed, after its supervisor
\* restarted the monitor command
C10_Witness ==
    \E t \in Threads, i \in Ids :
        /\ thr[t].pc = "ret"
        /\ thr[t].same
        /\ i \in thr[t].vms
        /\ knownVMs[i] # 0
        /\ vm[knownVMs[i]].Logger # Nil
        /\ sup[knownVMs[i]].round >= 1

\* The fields of a line, read off the line itself: the maximal runs of
\* characters that are not white space, from left to right
Runs(line) ==
    {<<a, b>> \in (1..Len(line)) \X (1..Len(line)) :
        /\ a <= b
        /\ \A i \in a..b : ~IsSpace(line[i])
        /\ a = 1 \/ IsSpace(line[a - 1])
        /\ b = Len(line) \/ IsSpace(line[b + 1])}

FieldAt(line, k) ==
    LET run == CHOOSE x \in Runs(line) : Cardinality({y \in Runs(line) : y[1] < x[1]}) = k - 1
    IN  SubSeq(line, run[1], run[2])

\* a decimal integer: an optional sign and at least one digit
IsInteger(w) ==
    LET from == IF w # <<>> /\ w[1] \in {"+", "-"} THEN 2 ELSE 1
    IN  /\ Len(w) >= from
        /\ \A i \in from..Len(w) : IsDigit(w[i])

RECURSIVE Pow10(_)
Pow10(n) == IF n = 0 THEN 1 ELSE 10 * Pow10(n - 1)

RECURSIVE PlaceSum(_, _)
PlaceSum(w, i) ==
    IF i > Len(w) THEN 0
    ELSE (IF IsDigit(w[i]) THEN DigitVal(w[i]) * Pow10(Len(w) - i) ELSE 0) + PlaceSum(w, i + 1)

IntegerOf(w) == IF w[1] = "-" THEN 0 - PlaceSum(w, 1) ELSE PlaceSum(w, 1)

\* a row the probe is to report
Qualifies(line) ==
    /\ Cardinality(Runs(line)) >= 3
    /\ FieldAt(line, 2) = Running
    /\ IsInteger(FieldAt(line, 1))

\* C11: after any number of lines, the map holds exactly the ids of the
\* lines gone through that have at least 3 fields, "running" as the second
\* and an integer as the first; each id once, with the name (third field)
\* of the last such line; lines that do not qualify leave no trace.
C11_ProbeRows ==
    LET lines == Split(outStr)
        good == {i \in 1..row : Qualifies(lines[i])}
        idOf(i) == IntegerOf(FieldAt(lines[i], 1))
    IN  /\ {e.Id : e \in lxcs} = {idOf(i) : i \in good}
        /\ \A e, f \in lxcs : e.Id = f.Id => e = f
        /\ \A e \in lxcs : \E i \in good :
              /\ idOf(i) = e.Id
              /\ FieldAt(lines[i], 3) = e.Name
              /\ \A j \in good : idOf(j) = e.Id => j <= i

\* the whole output is parsed, and a row that does not qualify came before
\* one that does
C11_Witness ==
    LET lines == Split(outStr)
    IN  /\ row = Len(lines)
        /\ \E i, j \in 1..row :
              /\ i < j
              /\ lines[i] # <<>>
              /\ ~Qualifies(lines[i])
              /\ Qualifies(lines[j])
              /\ \E e \in lxcs : e.Id = IntegerOf(FieldAt(lines[j], 1))

\* C12: a refresh whose `pct list` failed works on the empty set (it starts
\* nothing and registers nothing), runs to its end, and the goroutine that
\* ran it is back where it waits for the next tick or call.
C12_ProbeFailure ==
    /\ [](\A t \in Threads :
            thr[t].call = "refresh" /\ thr[t].failed =>
                thr[t].vms = {} /\ thr[t].starts = 0 /\ thr[t].news = 0)
    /\ \A t \in Threads :
          (thr[t].call = "refresh" /\ thr[t].failed)
              ~> (thr[t].pc = IF t = "ticker" THEN "select" ELSE "idle")

\* a periodic refresh whose probe failed has ended, having removed a workload
C12_Witness ==
    /\ thr["ticker"].pc = "ret"
    /\ thr["ticker"].failed
    /\ thr["ticker"].keys0 # {}
    /\ ticker = "running"

\* the lines of round r of the record o that the scan loop has gone through
Scanned(o, r) ==
    SubSeq(stream[o][r].produced, 1,
           Len(stream[o][r].produced) - Len(stream[o][r].pipe))

\* ... in all rounds up to r, in the order of the rounds
RECURSIVE ScannedThrough(_, _)
ScannedThrough(o, r) ==
    IF r < 0 THEN <<>> ELSE ScannedThrough(o, r - 1) \o Scanned(o, r)

\* what the sink is to get for a line: the decoded structure of a JSON
\* line, the line itself as a string otherwise
PayloadOf(line) ==
    IF line = JsonPlain THEN [type |-> "map", body |-> "MESSAGE=hi"]
    ELSE IF line = JsonSpaced THEN [type |-> "map", body |-> "MESSAGE=yo"]
    ELSE [type |-> "string", body |-> line]

\* C13: what a record's sink has been handed is, in order, what its
\* subprocesses have written and the scan loops have read, round after
\* round; a round that is over has had every line read, and no round
\* writes before the round before it is over.
C13_SinkOrder ==
    \A o \in Objs :
        LET all == ScannedThrough(o, MaxRetry)
        IN  /\ sink[o] = [i \in 1..Len(all) |-> PayloadOf(all[i])]
            /\ \A r \in Rounds : attempt[o][r].pc # "scan" => stream[o][r].pipe = <<>>
            /\ \A r \in Rounds \ {0} :
                  stream[o][r].produced # <<>> => attempt[o][r - 1].pc # "scan"

\* two rounds have written and been read to the end, with different lines
C13_Witness ==
    \E o \in Objs :
        /\ sup[o].pc = "done"
        /\ Len(stream[o][0].produced) = MaxLines
        /\ stream[o][1].produced # <<>>
        /\ stream[o][0].produced[1] # stream[o][0].produced[2]
        /\ Len(sink[o]) = MaxLines + Len(stream[o][1].produced)

\* C14: a step that takes a line off a subprocess's output hands the sink
\* exactly one payload more, the decoded structure of a JSON line or the raw
\* line as a string; no other step hands the sink anything.
C14_OneEmitPerLine ==
    [][\A o \in Objs :
          LET taken == {r \in Rounds : Len(stream'[o][r].pipe) < Len(stream[o][r].pipe)}
          IN  /\ \A r \in taken :
                    sink'[o] = Append(sink[o], PayloadOf(Head(stream[o][r].pipe)))
              /\ taken = {} => sink'[o] = sink[o]]_vars

\* a JSON line and a malformed line have been forwarded, one after the other
C14_Witness ==
    \E o \in Objs :
        /\ Len(sink[o]) >= 2
        /\ sink[o][1].type = "string"
        /\ sink[o][2].type = "map"

RECURSIVE WarnsThrough(_, _)
WarnsThrough(o, r) ==
    IF r < 0 THEN 0 ELSE WarnsThrough(o, r - 1) + stream[o][r].warns

\* C15, as claimed: one supervisor run logs the decode warning at most once,
\* over all the runs of its subprocess.
C15_WarnOncePerRun ==
    \A o \in Objs : WarnsThrough(o, MaxRetry) <= 1

\* C15, amended: each run of the subprocess (each call of runVMMonitoring)
\* logs the decode warning at most once, and exactly once if it has read a
\* malformed line.
C15_WarnOncePerAttempt ==
    \A o \in Objs, r \in Rounds :
        /\ stream[o][r].warns <= 1
        /\ stream[o][r].warns = 1 <=>
              \E i \in 1..Len(Scanned(o, r)) : PayloadOf(Scanned(o, r)[i]).type = "string"

\* two malformed lines read in one run of the subprocess, one warning
C15_Witness ==
    \E o \in Objs, r \in Rounds :
        /\ Len(Scanned(o, r)) = 2
        /\ \A i \in 1..2 : Scanned(o, r)[i] = NotJson
        /\ stream[o][r].warns = 1

(***************************************************************************)
(* The registry's removals                                                 *)
(***************************************************************************)
\* the ids the latest probe reported as running: those of the refresh under
\* way, else those of the last refresh that returned
LatestProbe ==
    IF \E t \in Threads : thr[t].call = "refresh"
      THEN thr[CHOOSE t \in Threads : thr[t].call = "refresh"].vms
      ELSE IF lastProbe # Nil THEN lastProbe[1] ELSE {}

\* the ids whose entry this step deletes from the registry
RemovedNow == {i \in Ids : knownVMs[i] # 0 /\ knownVMs'[i] = 0}

\* C16 as stated: no step removes the entry of an id that the latest probe
\* reported as running.
C16_RemovedOnlyIfAbsent ==
    [][\A i \in RemovedNow : i \notin LatestProbe]_vars

\* C16, amended: an entry is removed only by RemoveVM, called either by a
\* refresh for an id that its probe result lacks, or by Stop(), which removes
\* every entry whatever the latest probe reported.
C16_RemovedByRefreshOrStop ==
    [][\A i \in RemovedNow : \E t \in Threads :
          /\ thr[t].pc = "stopping" /\ thr[t].cur = i
          /\ \/ thr[t].call = "refresh" /\ i \notin thr[t].vms
             \/ thr[t].call = "stop" /\ t = "main" /\ ticker = "stopped"]_vars

\* a refresh has removed an entry that its probe result lacks, and kept one
\* that it holds
C16_Witness ==
    \E t \in Threads :
        /\ thr[t].call = "refresh" /\ thr[t].pc = "ret"
        /\ \E i \in thr[t].keys0 \ thr[t].vms : knownVMs[i] = 0
        /\ \E i \in thr[t].keys0 \cap thr[t].vms : knownVMs[i] # 0

(***************************************************************************)
(* The supervisor's contract                                               *)
(***************************************************************************)
\* a supervisor was started for the record o, whose monitor command is empty
Commandless(o) == vm[o].Id # 0 /\ vm[o].MonitorCmd = "" /\ sup[o].pc # "none"

\* C17: a supervisor started for a workload whose monitor command is empty
\* ends at once with the error "missing monitoring command", whatever the
\* retry count: it launches no subprocess and stores no cancel handle.
C17_MissingCommand ==
    \A o \in Objs : Commandless(o) =>
        /\ sup[o].pc \in {"begin", "done"}
        /\ sup[o].pc = "done" => sup[o].ret = "missing monitoring command"
        /\ Started(o) = {}
        /\ vm[o].StopProcess = Nil

\* such a supervisor has returned with the error, the retry count being 0
C17_Witness ==
    /\ cfg.CmdRetryTimes = 0
    /\ \E o \in Objs : Commandless(o) /\ sup[o].pc = "done"
                       /\ sup[o].ret = "missing monitoring command"

\* the supervisor of o takes the value of its round, whose subprocess ended
\* without error, and finds the workload still marked running
NormalExitTaken(o) ==
    /\ sup[o].pc = "wait" /\ sup'[o] # sup[o]
    /\ attempt[o][sup[o].round].how = "ok"
    /\ vm[o].Running

\* C18: a subprocess that ends without error while the workload is marked
\* running uses up one attempt; when attempts remain the supervisor sleeps
\* the retry delay and then launches the command again, else it returns.
C18_NormalExitRetries ==
    [][\A o \in Objs :
          /\ NormalExitTaken(o) =>
                /\ sup'[o].round = sup[o].round + 1
                /\ sup'[o].pc = IF sup[o].round + 1 < cfg.CmdRetryTimes
                                  THEN "sleep" ELSE "done"
          /\ sup[o].pc = "sleep" /\ sup'[o] # sup[o] =>
                /\ sup'[o] = [sup[o] EXCEPT !.pc = "wait"]
                /\ attempt[o][sup[o].round].pc = "none"
                /\ attempt'[o][sup[o].round].pc \in {"scan", "nostart"}]_vars

\* the first subprocess ended without error and the second one is running
C18_Witness ==
    \E o \in Objs : /\ attempt[o][0].how = "ok"
                    /\ sup[o].round = 1 /\ sup[o].pc = "wait"
                    /\ attempt[o][1].pc = "scan"

\* the supervisor of o returned because the loop condition failed
Exhausted(o) ==
    /\ vm[o].Id # 0 /\ vm[o].MonitorCmd # ""
    /\ sup[o].pc = "done" /\ sup[o].round = cfg.CmdRetryTimes

\* the rounds of o whose value was an error (the workload was marked running
\* when each of them was taken, or the loop would have ended there)
FailedRounds(o) == {r \in 0..(sup[o].round - 1) : attempt[o][r].how # "ok"}

\* the last of them
LastFailed(o) == CHOOSE r \in FailedRounds(o) : \A q \in FailedRounds(o) : q <= r

\* C19: once the retry budget of a supervisor is used up, LastError is the
\* error of the last attempt that failed (none when no attempt failed), and
\* the supervisor, having returned, launches nothing more.
C19_LastErrorKept ==
    /\ [](\A o \in Objs : Exhausted(o) =>
            vm[o].LastError = IF FailedRounds(o) = {} THEN Nil
                              ELSE Err(attempt[o][LastFailed(o)].how, LastFailed(o)))
    /\ [][\A o \in Objs : Exhausted(o) =>
            /\ sup'[o] = sup[o]
            /\ \A r \in Rounds : attempt[o][r].pc = "none" => attempt'[o][r].pc = "none"]_vars

\* two attempts failed in different ways and the budget of two is used up:
\* the error kept is the second one
C19_Witness ==
    \E o \in Objs : /\ Exhausted(o) /\ cfg.CmdRetryTimes = 2
                    /\ attempt[o][0].how = "nostart" /\ attempt[o][1].how = "exit"
                    /\ vm[o].LastError = Err("exit", 1)

\* this step is one of the two halves of StopVMMonitoring(id)
StopStep(id) ==
    \/ thr["main"].pc = "idle" /\ thr'["main"].pc = "stopvm" /\ thr'["main"].cur = id
    \/ thr["main"].pc = "stopvm" /\ thr["main"].cur = id /\ thr'["main"].pc = "idle"

\* the id is not registered, or its workload is marked as not running
AlreadyStopped(id) == knownVMs[id] = 0 \/ ~vm[knownVMs[id]].Running

\* C20: StopVMMonitoring on an id that is not registered, or whose workload
\* is already stopped, changes neither the registry nor any record (running
\* flag, cancel handle, LastError), and neither starts nor kills a subprocess.
C20_StopIdempotent ==
    [][\A id \in Ids : StopStep(id) /\ AlreadyStopped(id) =>
          UNCHANGED <<knownVMs, vm, sup, attempt>>]_vars

(***************************************************************************)
(* The inventory and the registry                                          *)
(***************************************************************************)
\* the goroutine t is in a refresh whose probe read the inventory
Probed(t) == thr[t].call = "refresh" /\ ~thr[t].failed /\ ~cfg.SkipLXCs

\* the ids the inventory lists as containers that do not run and that had
\* no entry when the refresh of t began
NewStopped(t) == {i \in Ids : inv[i] = "lxc-stopped" /\ i \notin thr[t].keys0}

\* C21 as stated: a refresh records in the registry, without a supervisor,
\* the workloads that the inventory lists as not running and that are new.
C21_StoppedRecorded ==
    \A t \in Threads : Probed(t) =>
        \A i \in NewStopped(t) : knownVMs[i] # 0 /\ sup[knownVMs[i]].pc = "none"

\* C21, amended: the probe drops the rows that are not "running", so a
\* refresh neither records nor supervises such a workload; the entries it
\* adds and the supervisors it starts are for new running containers only.
C21_StoppedNotRecorded ==
    \A t \in Threads : Probed(t) =>
        /\ thr[t].vms = {i \in Ids : inv[i] = "lxc-running"}
        /\ \A i \in NewStopped(t) : knownVMs[i] = 0
        /\ thr[t].news = Cardinality(thr[t].vms \ thr[t].keys0)
        /\ thr[t].starts <= thr[t].news

\* a refresh has returned: it left out a new container that does not run
\* and recorded a new one that runs
C21_Witness ==
    \E t \in Threads :
        /\ Probed(t) /\ thr[t].pc = "ret"
        /\ \E i \in NewStopped(t) : knownVMs[i] = 0
        /\ \E i \in thr[t].vms \ thr[t].keys0 : knownVMs[i] # 0

(***************************************************************************)
(* Start, Stop and the ticks                                               *)
(***************************************************************************)
\* C22: with a refresh interval of 0 the startup refresh is the only one
\* ever run (one by Start(), none by a ticker, whatever is called next);
\* with a positive interval every periodic refresh comes after the startup
\* refresh has returned.
C22_OneStartupTick ==
    /\ cfg.RefreshInterval = 0 => firsts <= 1 /\ thr["ticker"].pc = "none"
    /\ thr["ticker"].call = "refresh" => firsts >= 1 /\ thr["main"].call # "refresh"

\* the goroutines that are inside RefreshVMsMonitoring or the loop of Stop()
Reconciling == {t \in Threads : thr[t].call # ""}

\* C23: at no time are two refreshes under way, nor a refresh and the loop
\* of Stop() that empties the registry.
C23_NoOverlap == Cardinality(Reconciling) <= 1

\* Stop() is emptying the registry after the ticker's goroutine, which ran a
\* periodic refresh earlier, has ended
C23_Witness ==
    /\ thr["main"].call = "stop" /\ thr["main"].pc = "stopping"
    /\ thr["ticker"].pc = "ended"

(***************************************************************************)
(* Accesses to the shared fields of a record                               *)
(***************************************************************************)
\* a reconciling goroutine is about to write `vm.Running = false` on o
WritesRunning(o) ==
    \E t \in Threads : thr[t].pc = "stopping" /\ knownVMs[thr[t].cur] = o

\* a goroutine of the supervisor of o is about to read vm.Running: the loop
\* with a value to take from `finished`, or runVMMonitoring after cmd.Wait()
ReadsRunning(o) ==
    \/ sup[o].pc = "wait" /\ attempt[o][sup[o].round].finished # <<>>
    \/ \E r \in Rounds : attempt[o][r].pc = "scan"

\* a reconciling goroutine is about to read vm.StopProcess of o
ReadsStopProcess(o) ==
    \E t \in Threads, id \in Ids :
        thr[t].pc = "remove" /\ id \in thr[t].remove /\ knownVMs[id] = o

\* the supervisor of o is about to write `vm.StopProcess = cancel`
WritesStopProcess(o) ==
    \/ sup[o].pc = "begin" /\ ~MissingCmd(o) /\ LoopContinues(0)
    \/ sup[o].pc = "sleep"

\* C24: no state has two goroutines about to access the same field of the
\* same record, one of them writing, with nothing that orders the two (the
\* code takes no lock and the two steps are both enabled).
C24_NoSharedAccess ==
    \A o \in Objs : vm[o].Id # 0 =>
        /\ ~(WritesRunning(o) /\ ReadsRunning(o))
        /\ ~(ReadsStopProcess(o) /\ WritesStopProcess(o))

(***************************************************************************)
(* Workloads whose sink could not be created                               *)
(***************************************************************************)
\* the ids registered with a record that has no sink
Sinkless == {i \in Ids : knownVMs[i] # 0 /\ vm[knownVMs[i]].Logger = Nil}

\* C25: when ologgers.New fails for a new workload the refresh goes on to
\* its end: the workload is registered without a sink, it is not marked
\* running, no supervisor and no subprocess is started for it, and nothing
\* is scanned or emitted for it.
C25_SinklessUnmonitored ==
    \A i \in Sinkless :
        LET o == knownVMs[i]
        IN  /\ vm[o].Id = i /\ ~vm[o].Running /\ vm[o].StopProcess = Nil
            /\ sup[o].pc = "none" /\ Started(o) = {}
            /\ sink[o] = <<>> /\ \A r \in Rounds : stream[o][r] = NoStream

\* Start() has returned from a refresh that registered a workload whose sink
\* could not be created
C25_Witness ==
    /\ firsts >= 1 /\ thr["main"].pc = "idle" /\ thr["main"].call = ""
    /\ Sinkless # {}

\* C26: a workload registered without a sink keeps its entry as it is, with
\* no sink and no supervisor, through every step and every refresh that
\* finds it; the entry only ever goes away, by a refresh whose probe lacks
\* the id or by Stop(), and only then can the id be registered anew, with
\* another attempt to create its sink.
C26_SinklessStays ==
    [][\A i \in Sinkless :
          LET o == knownVMs[i]
          IN  \/ /\ knownVMs'[i] = o
                 /\ vm'[o] = vm[o] /\ sup'[o] = sup[o] /\ attempt'[o] = attempt[o]
              \/ /\ knownVMs'[i] = 0
                 /\ \E t \in Threads :
                       /\ thr[t].pc = "stopping" /\ thr[t].cur = i
                       /\ thr[t].call = "refresh" => i \notin thr[t].vms]_vars

\* a refresh that found a sinkless workload again has returned, and the
\* workload is as it was
C26_Witness ==
    \E t \in Threads, i \in Sinkless :
        /\ thr[t].call = "refresh" /\ thr[t].pc = "ret"
        /\ i \in thr[t].vms /\ i \in thr[t].keys0
        /\ thr[t].starts = 0

(***************************************************************************)
(* Supervisors side by side                                                *)
(***************************************************************************)
\* the supervisor of o is blocked: it sleeps its retry delay, or it waits
\* for `finished` while its subprocess runs and its output is read
Blocked(o) ==
    \/ sup[o].pc = "sleep"
    \/ sup[o].pc = "wait" /\ attempt[o][sup[o].round].pc = "scan"

\* every step the goroutines of the record o are at can be taken
StepsFree(o) ==
    /\ sup[o].pc = "begin" => ENABLED (\E spawned \in BOOLEAN : SupBegin(o, spawned))
    /\ sup[o].pc = "sleep" => ENABLED (\E spawned \in BOOLEAN : SupWake(o, spawned))
    /\ sup[o].pc = "wait" /\ attempt[o][sup[o].round].finished # <<>>
          => ENABLED SupReceive(o)
    /\ \A r \in Rounds : attempt[o][r].pc = "scan"
          => ENABLED (\E how \in {"exit", "ok"} : ProcExits(o, r, how))
    /\ \A r \in Rounds : attempt[o][r].pc = "scan" /\ attempt[o][r].ctx = "cancelled"
          => ENABLED ProcKilled(o, r)

\* every step the reconciling goroutines are at can be taken
TickFree ==
    /\ \A t \in Threads : thr[t].pc = "remove"
          => \A id \in thr[t].remove : ENABLED RemoveVMStop(t, id)
    /\ \A t \in Threads : thr[t].pc = "stopping" => ENABLED RemoveVMDelete(t)
    /\ thr["ticker"].pc = "select" /\ ticker = "running"
          => ENABLED (\E p \in ProbeResults, ok \in SUBSET Ids : TickerTick(p, ok))

StopStuck == thr["main"].pc = "quit" /\ thr["ticker"].pc = "ended"

\* C28: Stop() after Start() returns: the program does not panic in it and
\* it does not block for ever, whatever the refresh interval and also when
\* it is called a second time.
C28_StopReturns == firsts >= 1 => Alive /\ ~StopStuck

(***************************************************************************)
(* What is monitored                                                       *)
(***************************************************************************)
\* the ids that get a registry entry in this step
RegisteredNow == {i \in Ids : knownVMs[i] = 0 /\ knownVMs'[i] # 0}

\* the records that get a supervisor in this step
SupervisedNow == {o \in Objs : sup[o].pc = "none" /\ sup'[o].pc = "begin"}

\* C29: no step creates a registry entry or starts a supervisor for a
\* Qemu/KVM machine, with or without SkipLXCs: every entry and every
\* supervisor is for an id that `pct list` reports as a running container,
\* and its monitor command is `pct`.
C29_ContainersOnly ==
    [][/\ \A i \in RegisteredNow : inv[i] = "lxc-running"
       /\ \A o \in SupervisedNow :
             inv[vm'[o].Id] = "lxc-running" /\ vm'[o].MonitorCmd = "pct"]_vars

\* a refresh has returned on a node where a machine and a container run:
\* the container has an entry, the machine has none
C29_Witness ==
    \E t \in Threads :
        /\ Probed(t) /\ thr[t].pc = "ret"
        /\ \E i \in Ids : inv[i] = "qm-running" /\ knownVMs[i] = 0
        /\ \E i \in Ids : inv[i] = "lxc-running" /\ knownVMs[i] # 0
                          /\ sup[knownVMs[i]].pc # "none"

Returning == {t \in Threads : thr[t].call = "refresh" /\ thr[t].pc = "ret"}

\* C31: when a refresh returns, the ids of the registry are those its probe
\* returned: each of them has an entry, and every entry of another id is gone.
C31_RegistryIsProbe ==
    \A t \in Returning : Keys = thr[t].vms

\* a refresh has returned that found one workload new and another vanished
C31_Witness ==
    \E t \in Returning :
        /\ thr[t].vms \ thr[t].keys0 # {}
        /\ thr[t].keys0 \ thr[t].vms # {}
        /\ Probed(t)

\* C32: a refresh whose probe command failed calls stop() once for every
\* workload that was registered when it began, and the registry is empty
\* when it returns.
C32_FailedProbeEmpties ==
    \A t \in Returning :
        thr[t].failed =>
            /\ Keys = {}
            /\ \A i \in thr[t].keys0 : thr[t].stops[i] = 1

\* a refresh whose probe failed has returned, having stopped a supervisor
\* whose container is still running on the node
C32_Witness ==
    \E t \in Returning, o \in Objs :
        /\ thr[t].failed
        /\ vm[o].Id \in thr[t].keys0
        /\ inv[vm[o].Id] = "lxc-running"
        /\ Stopped(o)

(***************************************************************************)
(* What a tick does with a running descriptor                              *)
(***************************************************************************)
\* the goroutines whose RefreshVMsMonitoring runs its first loop in this step
Ticking == {t \in Threads : thr[t].call = "" /\ thr'[t].call = "refresh"}

\* the entry of i holds a sink, no supervisor is at work for it and it is
\* not marked running
Idle(i) ==
    /\ knownVMs[i] # 0
    /\ vm[knownVMs[i]].Logger # Nil
    /\ ~SupActive(knownVMs[i])
    /\ ~vm[knownVMs[i]].Running

\* the supervisors this step starts for the id i
StartedFor(i) ==
    {o \in Objs : vm'[o].Id = i /\ sup'[o].pc = "begin" /\ sup[o].pc # "begin"}

\* C33: of the ids a refresh gets as running, one that has no entry gets an
\* entry and (its sink having been created) one supervisor; one whose entry
\* holds a sink, is not supervised and is not marked running gets its
\* supervisor started; one that is supervised is left as it is.
C33_TickStarts ==
    [][\A t \in Ticking : \A i \in thr'[t].vms :
          /\ knownVMs[i] = 0 =>
                /\ knownVMs'[i] # 0
                /\ vm'[knownVMs'[i]].Logger # Nil =>
                      StartedFor(i) = {knownVMs'[i]}
          /\ Idle(i) => StartedFor(i) # {}
          /\ knownVMs[i] # 0 /\ SupActive(knownVMs[i]) =>
                /\ StartedFor(i) = {}
                /\ knownVMs'[i] = knownVMs[i]
                /\ sup'[knownVMs[i]] = sup[knownVMs[i]]
                /\ vm'[knownVMs[i]] = vm[knownVMs[i]]]_vars

(***************************************************************************)
(* A monitor command that cannot be started                                *)
(***************************************************************************)
\* the values runVMMonitoring has sent on the channel of round r so far:
\* after a failed cmd.Start() the error at once and, the function going on
\* to its end, the result of cmd.Wait() as soon as the loop has taken the
\* first; else the one value at the end
Sent(o, r) ==
    IF attempt[o][r].how = "nostart"
      THEN IF attempt[o][r].pc = "nostart" THEN 1 ELSE 2
      ELSE IF attempt[o][r].pc = "done" THEN 1 ELSE 0

\* no run of o's monitor command could be started, and the workload has
\* stayed marked running
NeverSpawned(o) ==
    /\ vm[o].Running
    /\ Started(o) # {}
    /\ \A r \in Started(o) : attempt[o][r].how = "nostart"

\* C34: a round whose subprocess could not be started sends exactly one
\* value on its channel, and a command that can never be started is
\* attempted exactly CmdRetryTimes times.
C34_SpawnFailureOnce ==
    \A o \in Objs :
        /\ \A r \in Rounds : attempt[o][r].how = "nostart" => Sent(o, r) = 1
        /\ NeverSpawned(o) =>
              /\ Cardinality(Started(o)) <= cfg.CmdRetryTimes
              /\ sup[o].pc = "done" => Started(o) = 0..(cfg.CmdRetryTimes - 1)

\* the part of C34 that holds: the retry budget of a command that can never
\* be started
SpawnFailureBudget ==
    \A o \in Objs :
        NeverSpawned(o) =>
            /\ Cardinality(Started(o)) <= cfg.CmdRetryTimes
            /\ sup[o].pc = "done" => Started(o) = 0..(cfg.CmdRetryTimes - 1)

(***************************************************************************)
(* After the retry budget                                                  *)
(***************************************************************************)
\* the registered records whose supervisor returned with its budget used up
Spent == {o \in Objs : Exhausted(o) /\ knownVMs[vm[o].Id] = o}

\* C35: a registered workload whose supervisor has used up its budget stays
\* marked running, and no step starts a supervisor for its id (its own
\* again, or one for a new record) as long as its entry is there; the entry
\* goes only by RemoveVM, in a refresh whose probe lacks the id or in Stop().
C35_SpentStays ==
    [][\A o \in Spent :
          /\ vm[o].Running
          /\ \/ /\ knownVMs'[vm[o].Id] = 0
                /\ \E t \in Threads :
                      /\ thr[t].pc = "stopping" /\ thr[t].cur = vm[o].Id
                      /\ thr[t].call = "refresh" => vm[o].Id \notin thr[t].vms
             \/ /\ knownVMs'[vm[o].Id] = o
                /\ vm'[o] = vm[o]
                /\ sup'[o] = sup[o]
                /\ StartedFor(vm[o].Id) = {}]_vars

\* a refresh has returned that got as running a workload whose supervisor
\* had used up a budget of two attempts before the refresh began
C35_Witness ==
    \E t \in Returning, o \in Spent :
        /\ vm[o].Id \in thr[t].vms \cap thr[t].keys0
        /\ sup[o].round = 2
        /\ thr[t].news = 0 /\ thr[t].starts = 0
        /\ vm[o].LastError # Nil

(***************************************************************************)
(* After Stop()                                                            *)
(***************************************************************************)
\* C36: once a call of Stop() has returned the registry is empty and no
\* goroutine is in a refresh, and from then on no step runs a refresh,
\* creates a registry entry or starts a supervisor.
C36_StoppedForGood ==
    [][/\ stopped' =>
             /\ \A i \in Ids : knownVMs'[i] = 0
             /\ \A t \in Threads : thr'[t].call # "refresh"
       /\ stopped => Ticking = {} /\ RegisteredNow = {} /\ SupervisedNow = {}]_vars

\* Stop() has returned after removing a supervised workload, whose record
\* is still winding down, and the program has called Stop() once more
C36_Witness ==
    /\ stopped
    /\ ticker = "stopped"
    /\ \E o \in Objs : Stopped(o) /\ SupActive(o)
    /\ thr["main"].pc = "quit"

(***************************************************************************)
(* Start() called again                                                    *)
(***************************************************************************)
\* C37: once Start() has run its first refresh, no later call of Start()
\* runs a refresh (which is what would change the registry, and what a
\* second ticker and goroutine would follow), whatever the refresh interval.
C37_StartIdempotent ==
    [][firsts >= 1 =>
          /\ firsts' = firsts
          /\ "main" \notin Ticking]_vars

\* the part of C37 that holds: with a positive interval a second Start()
\* finds the ticker and returns
StartOnceWithTicker ==
    [][cfg.RefreshInterval > 0 /\ firsts >= 1 =>
          firsts' = firsts /\ "main" \notin Ticking]_vars

(***************************************************************************)
(* What a tick leaves alone                                                *)
(***************************************************************************)
\* the goroutines that take a step of RefreshVMsMonitoring in this step
InTick == {t \in Threads : thr'[t] # thr[t] /\ (t \in Ticking \/ thr[t].call = "refresh")}

\* what CurrentVMs returned to the refresh that t is running
ProbeOf(t) == IF t \in Ticking THEN thr'[t].vms ELSE thr[t].vms

\* C38: no step of a refresh changes the entry or the record (sink, cancel
\* handle, running flag, last error, monitor command) of a workload that is
\* in the registry and in the refresh's probe result, nor what its sink has
\* received: the descriptor built for it by that probe is dropped.  (The
\* workload's own supervisor may store a handle or an error meanwhile.)
C38_TickKeepsRecords ==
    [][\A t \in InTick : \A i \in Keys \cap ProbeOf(t) :
          /\ knownVMs'[i] = knownVMs[i]
          /\ vm'[knownVMs[i]] = vm[knownVMs[i]]
          /\ sink'[knownVMs[i]] = sink[knownVMs[i]]]_vars

\* a refresh has returned that found a new workload beside a registered one
\* whose supervisor had run out of attempts with an error
C38_Witness ==
    \E t \in Returning, i \in Ids :
        /\ i \in thr[t].keys0 \cap thr[t].vms
        /\ thr[t].news = 1
        /\ knownVMs[i] # 0
        /\ vm[knownVMs[i]].LastError # Nil
        /\ vm[knownVMs[i]].StopProcess # Nil
        /\ vm[knownVMs[i]].Logger # Nil

(***************************************************************************)
(* The exporter on the command line                                        *)
(***************************************************************************)
\* the value the command line gives a flag: that of its last occurrence,
\* else the flag's default
RECURSIVE Given(_, _, _)
Given(argv, name, value) ==
    IF argv = <<>> THEN value
    ELSE Given(Tail(argv), name, IF Head(argv)[1] = name THEN Head(argv)[2] ELSE value)

\* C39: ParseArgs (the compression asked for being one it knows) returns
\* the configuration when the exporter asked for is "grpc" or "http", the
\* default included, and ends the program with an error when it is neither.
C39_ExporterAccepted ==
    /\ parse.pc \in {"returned", "exit1"}
    /\ Given(parse.argv, "otlp-compression", DefaultOf("otlp-compression")) \in {"none", "gzip"}
    => (parse.pc = "returned" <=>
            Given(parse.argv, "otlp-exporter", DefaultOf("otlp-exporter")) \in {"grpc", "http"})

\* what the code does instead: no command line is accepted
NeverAccepted == parse.pc # "returned" /\ (parse.pc = "exit1" => parse.c.OtlpExporter = "")

(***************************************************************************)
(* The timestamps of an emitted record                                     *)
(***************************************************************************)
\* a decimal count: digits and nothing else
IsCount(s) == s # <<>> /\ \A k \in 1..Len(s) : IsDigit(s[k])

\* the instant n microseconds after the epoch: seconds and nanoseconds
Instant(n) == <<n \div 1000000, (n % 1000000) * 1000>>

\* C40: when the body holds _SOURCE_REALTIME_TIMESTAMP (__REALTIME_TIMESTAMP)
\* with a decimal count of microseconds, the emitted record's timestamp
\* (observed timestamp) is the instant that count denotes.
C40_TimestampsSet ==
    emit.pc = "emitted" =>
        \A kv \in emit.body :
            IsCount(kv[2]) =>
                /\ kv[1] = "_SOURCE_REALTIME_TIMESTAMP" =>
                      emit.record.Timestamp = Instant(IntegerOf(kv[2]))
                /\ kv[1] = "__REALTIME_TIMESTAMP" =>
                      emit.record.ObservedTimestamp = Instant(IntegerOf(kv[2]))

\* what the code does instead: str2time converts every count as the claim
\* has it, and Log sets neither timestamp, whatever the body holds
NeverStamped ==
    emit.pc = "emitted" =>
        /\ emit.record = [Timestamp |-> Nil, ObservedTimestamp |-> Nil]
        /\ \A kv \in emit.body :
              IsCount(kv[2]) => str2time(kv[2]) = [tm |-> Instant(IntegerOf(kv[2])), err |-> Nil]

=============================================================================
